---- MODULE Spec2Model ----
(***************************************************************************)
(* A model of the numerical core of Gryd: the iterative solvers of geoid.h, *)
(* the geocentric conversion, the Vincenty inverse and direct problems,    *)
(* npoints, the datum shift dat2dat and the decompositions dms and dmm of  *)
(* geoid.c (src/unnamed/part_006), and the forward and inverse             *)
(* projections: Mercator (part_003), Transverse Mercator (part_004),       *)
(* Lambert Conformal Conic and Equirectangular (part_005), Miller          *)
(* (miller.c) and Oblique Mercator (omerc.c).                              *)
(*                                                                         *)
(* The C code computes in IEEE double.  The model computes in decimal      *)
(* fixed point with 16 fractional digits (one unit = 1e-16), stored as a   *)
(* sign and a little-endian sequence of base-10000 limbs, because TLC's    *)
(* integers are 32 bits wide.  Products and quotients are truncated        *)
(* toward zero at the 16th digit, which plays the part of the rounding     *)
(* of a double operation.  sqrt, sin, cos, tan, atan, atan2, exp, log and  *)
(* pow are the C library's; the model computes them to that precision, by  *)
(* digit recurrence and by series after argument reduction.                *)
(*                                                                         *)
(* A value that is used more than once is passed as an operator parameter, *)
(* which TLC evaluates once; the statements of a C function are operators  *)
(* named after their source line, each taking the locals record l and      *)
(* returning it with that line's assignments made.                         *)
(***************************************************************************)
EXTENDS Integers, Sequences, FiniteSets, TLC

(***************************************************************************)
(* Fixed-point arithmetic: the model of the C type double.                 *)
(***************************************************************************)
Base == 10000
FracLimbs == 4

\* e, with v evaluated first: TLC evaluates an argument where it is first
\* used, nested in the evaluation that uses it, and After keeps that shallow
After(v, e) == IF v = v THEN e ELSE e

Limb(a, i) == IF i >= 1 /\ i <= Len(a) THEN a[i] ELSE 0

\* the largest element of a non-empty set of integers
Top(S) == CHOOSE i \in S : \A j \in S : j <= i

\* the magnitude without its leading zero limbs
Trim(m) ==
  IF m = <<>> THEN m
  ELSE IF m[Len(m)] # 0 THEN m
  ELSE IF \A i \in 1..Len(m) : m[i] = 0 THEN <<>>
  ELSE SubSeq(m, 1, Top({i \in 1..Len(m) : m[i] # 0}))

MagCmpAt(a, b, t) == IF a[t] > b[t] THEN 1 ELSE -1

MagCmp(a, b) ==
  IF a = b THEN 0
  ELSE IF Len(a) # Len(b) THEN (IF Len(a) > Len(b) THEN 1 ELSE -1)
  ELSE IF a[Len(a)] # b[Len(a)] THEN MagCmpAt(a, b, Len(a))
  ELSE MagCmpAt(a, b, Top({i \in 1..Len(a) : a[i] # b[i]}))

\* The carries of a sequence e of columns in 0 .. Base + 1 are 0 or 1: a
\* column >= Base generates one, a column = Base - 1 passes it on.
CarryIn(e, i) ==
  IF i = 1 THEN 0
  ELSE IF e[i - 1] >= Base THEN 1
  ELSE IF e[i - 1] < Base - 1 THEN 0
  ELSE IF \E j \in 1..(i - 2) : e[j] >= Base /\ \A k \in (j + 1)..(i - 2) : e[k] = Base - 1
       THEN 1 ELSE 0

MagCarryTail(e) ==
  Trim(IF \A i \in 1..Len(e) : e[i] < Base THEN e
       ELSE [i \in 1..Len(e) |-> (e[i] + CarryIn(e, i)) % Base])

\* columns below 2^31 split into three limbs each, two limbs longer
Split1(c) ==
  [i \in 1..(Len(c) + 2) |->
     (IF i <= Len(c) THEN c[i] % Base ELSE 0)
     + (IF i > 1 /\ i <= Len(c) + 1 THEN (c[i - 1] \div Base) % Base ELSE 0)
     + (IF i > 2 THEN c[i - 2] \div (Base * Base) ELSE 0)]

\* columns below Base * Base split into two limbs each
Split2(c) ==
  [i \in 1..Len(c) |-> (c[i] % Base) + (IF i > 1 THEN c[i - 1] \div Base ELSE 0)]

\* Carry propagation for a sequence c of columns in 0 .. 2^31 - 1: two
\* passes of splitting leave columns of at most Base + 1.
MagCarry(c) == MagCarryTail(Split2(Split1(c)))

MagAddCols(a, b, n) == [i \in 1..(n + 1) |-> Limb(a, i) + Limb(b, i)]

MagAdd(a, b) ==
  IF a = <<>> THEN b
  ELSE IF b = <<>> THEN a
  ELSE MagCarryTail(Split2(MagAddCols(a, b, IF Len(a) > Len(b) THEN Len(a) ELSE Len(b))))

\* the borrow into limb i of the differences d: a negative limb generates
\* one, a zero limb passes it on
BorrowIn(d, i) ==
  IF i = 1 THEN 0
  ELSE IF d[i - 1] < 0 THEN 1
  ELSE IF d[i - 1] > 0 THEN 0
  ELSE IF \E j \in 1..(i - 2) : d[j] < 0 /\ \A k \in (j + 1)..(i - 2) : d[k] = 0
       THEN 1 ELSE 0

MagBorrow(d) == Trim([i \in 1..Len(d) |-> (d[i] - BorrowIn(d, i) + Base) % Base])

\* a - b for magnitudes with a >= b
MagSub(a, b) ==
  IF b = <<>> THEN a ELSE MagBorrow([i \in 1..Len(a) |-> a[i] - Limb(b, i)])

\* a * d for 0 <= d <= 200000
MagMulSmall(a, d) ==
  IF d = 0 THEN <<>>
  ELSE IF d = 1 THEN a
  ELSE MagCarry([i \in 1..Len(a) |-> a[i] * d])

RECURSIVE ColSum(_, _, _, _, _)
\* sum of a[i] * b[k + 1 - i] for i in lo..hi, split in halves
ColSum(a, b, k, lo, hi) ==
  IF lo = hi THEN a[lo] * b[k + 1 - lo]
  ELSE IF lo + 1 = hi THEN a[lo] * b[k + 1 - lo] + a[hi] * b[k + 1 - hi]
  ELSE ColSum(a, b, k, lo, (lo + hi) \div 2) + ColSum(a, b, k, (lo + hi) \div 2 + 1, hi)

MagMul(a, b) ==
  IF a = <<>> \/ b = <<>> THEN <<>>
  ELSE MagCarry([k \in 1..(Len(a) + Len(b) - 1) |->
                   ColSum(a, b, k,
                          IF k + 1 - Len(b) > 1 THEN k + 1 - Len(b) ELSE 1,
                          IF k < Len(a) THEN k ELSE Len(a))])

\* The divisions produce their quotient limbs from the top one down.  The
\* limbs hi..lo are split in halves, the upper half H first and the lower
\* half from the remainder H left, so that the evaluation nests log(hi - lo)
\* deep.
MagDivJoin(H, L) == [q |-> L.q \o H.q, r |-> L.r]

RECURSIVE MagDivSmallSeg(_, _, _, _, _)
RECURSIVE MagDivSmallLow(_, _, _, _, _)
MagDivSmallLow(a, d, mid, lo, H) ==
  After(H, MagDivJoin(H, MagDivSmallSeg(a, d, mid - 1, lo, H.r)))

MagDivSmallSeg(a, d, hi, lo, r) ==
  IF hi = lo
  THEN [q |-> <<(r * Base + a[hi]) \div d>>, r |-> (r * Base + a[hi]) % d]
  ELSE MagDivSmallLow(a, d, (hi + lo + 1) \div 2, lo,
                      MagDivSmallSeg(a, d, hi, (hi + lo + 1) \div 2, r))

\* floor(a / d) for 0 < d <= 200000
MagDivSmall(a, d) ==
  IF a = <<>> \/ d = 1 THEN a ELSE Trim(MagDivSmallSeg(a, d, Len(a), 1, 0).q)

RECURSIVE MagFix(_, _, _)
\* the quotient limb and remainder of r by b, from an estimate q that is not
\* too large: r holds the remainder for q
MagFix(r, b, q) ==
  IF MagCmp(r, b) < 0 THEN [q |-> <<q>>, r |-> r] ELSE MagFix(MagSub(r, b), b, q + 1)

\* the estimate of a quotient limb from the top limbs of r and b, k = Len(b)
MagQhat(r, b, k) ==
  IF ((IF Len(r) > k THEN r[k + 1] * Base ELSE 0) + r[k]) \div (b[k] + 1) > Base - 1
  THEN Base - 1
  ELSE ((IF Len(r) > k THEN r[k + 1] * Base ELSE 0) + r[k]) \div (b[k] + 1)

MagDigitFrom(r, b, q) == MagFix(MagSub(r, MagMulSmall(b, q)), b, q)

\* One quotient limb q and the remainder r - q * b, for r < Base * b, where
\* the top limb of b is at least Base / 2, so the estimate from the top limbs
\* is at most 3 too small.
MagDigit(r, b) ==
  IF MagCmp(r, b) < 0 THEN [q |-> <<0>>, r |-> r]
  ELSE MagDigitFrom(r, b, MagQhat(r, b, Len(b)))

RECURSIVE MagDivSeg(_, _, _, _, _)
RECURSIVE MagDivLow(_, _, _, _, _)
MagDivLow(a, b, mid, lo, H) ==
  After(H, MagDivJoin(H, MagDivSeg(a, b, mid - 1, lo, H.r)))

MagDivSeg(a, b, hi, lo, r) ==
  IF hi = lo THEN MagDigit(Trim(<<a[hi]>> \o r), b)
  ELSE MagDivLow(a, b, (hi + lo + 1) \div 2, lo,
                 MagDivSeg(a, b, hi, (hi + lo + 1) \div 2, r))

\* floor(a / b) for a >= b whose top limb is at least Base / 2: the first
\* remainder is the top Len(b) - 1 limbs of a
MagDivNorm(a, b) ==
  Trim(MagDivSeg(a, b, Len(a) - Len(b) + 1, 1,
                 SubSeq(a, Len(a) - Len(b) + 2, Len(a))).q)

\* floor(a / b) for magnitudes, b # 0 (schoolbook division; both are scaled
\* so that the divisor's top limb is at least Base / 2)
MagDivScaled(a, b, d) == MagDivNorm(MagMulSmall(a, d), MagMulSmall(b, d))

MagDiv(a, b) ==
  IF MagCmp(a, b) < 0 THEN <<>> ELSE MagDivScaled(a, b, Base \div (b[Len(b)] + 1))

MagShiftUp(a, n) == IF a = <<>> THEN a ELSE [i \in 1..n |-> 0] \o a
MagShiftDown(a, n) == IF Len(a) <= n THEN <<>> ELSE SubSeq(a, n + 1, Len(a))

\* floor(sqrt(n)) for 0 <= n < Base * Base, by hundreds and then by units
SmallSqrtIn(n, h) ==
  CHOOSE r \in (100 * h)..(100 * h + 99) : r * r <= n /\ n < (r + 1) * (r + 1)

SmallSqrt(n) ==
  SmallSqrtIn(n, CHOOSE h \in 0..99 :
                   (100 * h) * (100 * h) <= n /\ n < (100 * h + 100) * (100 * h + 100))

\* Newton's iteration for floor(sqrt(n)) from a guess r that is not below it
RECURSIVE MagSqrtAt(_, _)
RECURSIVE MagSqrtNext(_, _, _)
MagSqrtNext(n, r, r2) == IF MagCmp(r2, r) >= 0 THEN r ELSE MagSqrtAt(n, r2)

MagSqrtAt(n, r) == MagSqrtNext(n, r, MagDivSmall(MagAdd(r, MagDiv(n, r)), 2))

\* a first guess from s, one more than the root of the top two limbs of a
\* magnitude of len limbs
MagSqrtGuess(len, s) ==
  IF len % 2 = 0
  THEN MagShiftUp(Trim(<<s % Base, s \div Base>>), len \div 2 - 1)
  ELSE MagShiftUp(Trim(<<(s * 100) % Base, (s * 100) \div Base>>), (len - 3) \div 2)

\* floor(sqrt(n)) for a magnitude
MagSqrt(n) ==
  IF n = <<>> THEN <<>>
  ELSE IF Len(n) = 1 THEN <<SmallSqrt(n[1])>>
  ELSE MagSqrtAt(n, MagSqrtGuess(Len(n), SmallSqrt(n[Len(n)] * Base + n[Len(n) - 1]) + 1))

(***************************************************************************)
(* Signed fixed-point numbers.                                             *)
(***************************************************************************)
NormTrimmed(neg, t) == [neg |-> (neg /\ t # <<>>), m |-> t]

Norm(neg, m) == NormTrimmed(neg, Trim(m))

Zero == [neg |-> FALSE, m |-> <<>>]

\* the number ip + f1/1e4 + f2/1e8 + f3/1e12 + f4/1e16, 0 <= ip < 1e8
R(ip, f1, f2, f3, f4) ==
  Norm(FALSE, <<f4, f3, f2, f1, ip % Base, ip \div Base>>)

I(n) == IF n < 0 THEN [neg |-> TRUE, m |-> R(-n, 0, 0, 0, 0).m]
        ELSE R(n, 0, 0, 0, 0)

One == I(1)
Two == I(2)

\* Every operator looks at its arguments first, so that a nested expression
\* is evaluated from the inside out.
Neg(x) == IF x = Zero THEN Zero ELSE [neg |-> ~x.neg, m |-> x.m]
Fabs(x) == IF x = Zero THEN Zero ELSE [neg |-> FALSE, m |-> x.m]
NegIf(b, x) == IF b THEN Neg(x) ELSE x

Add(x, y) ==
  IF x.neg = y.neg THEN Norm(x.neg, MagAdd(x.m, y.m))
  ELSE IF MagCmp(x.m, y.m) >= 0 THEN Norm(x.neg, MagSub(x.m, y.m))
  ELSE Norm(y.neg, MagSub(y.m, x.m))

Sub(x, y) == Add(x, Neg(y))

Cmp(x, y) ==
  IF x.neg /\ ~y.neg THEN -1
  ELSE IF ~x.neg /\ y.neg THEN 1
  ELSE IF x.neg THEN MagCmp(y.m, x.m) ELSE MagCmp(x.m, y.m)

Lt(x, y) == Cmp(x, y) < 0
Le(x, y) == Cmp(x, y) <= 0
Gt(x, y) == Cmp(x, y) > 0
Ge(x, y) == Cmp(x, y) >= 0

Mul(x, y) ==
  IF x = Zero \/ y = Zero THEN Zero
  ELSE Norm(x.neg # y.neg, MagShiftDown(MagMul(x.m, y.m), FracLimbs))

\* x / y; the callers keep y # 0
Div(x, y) ==
  IF y # Zero /\ x = Zero THEN Zero
  ELSE Norm(x.neg # y.neg, MagDiv(MagShiftUp(x.m, FracLimbs), y.m))

\* x * n and x / n for a natural n <= 200000, n > 0 in the quotient
MulI(x, n) == IF x = Zero THEN Zero ELSE Norm(x.neg, MagMulSmall(x.m, n))
DivI(x, n) == IF x = Zero THEN Zero ELSE Norm(x.neg, MagDivSmall(x.m, n))

Sq(x) == Mul(x, x)

Sqrt(x) == IF x = Zero THEN Zero ELSE Norm(FALSE, MagSqrt(MagShiftUp(x.m, FracLimbs)))

\* the integer part of a non-negative x below 1e8, as a TLC integer
IntPart(x) == Limb(x.m, FracLimbs + 1) + Base * Limb(x.m, FracLimbs + 2)

(***************************************************************************)
(* The functions of <math.h> the code calls, by argument reduction and     *)
(* power series summed until the term underflows.                          *)
(***************************************************************************)
M_PI == R(3, 1415, 9265, 3589, 7932)
HALF_PI == DivI(M_PI, 2)
QUARTER_PI == DivI(M_PI, 4)
TWO_PI == MulI(M_PI, 2)
LN2 == R(0, 6931, 4718, 559, 9453)
TWO_OVER_PI == R(0, 6366, 1977, 2367, 5813)
TAN_PI_8 == R(0, 4142, 1356, 2373, 950)

\* One more term of a power series in x.  st.p is the running term, st.n its
\* index and st.acc the sum so far; the sum ends when p underflows.
\*   "sin"   p/1 added,  p <- -p*x/(n*(n+1)),  n <- n + 2
\*   "exp"   p/1 added,  p <-  p*x/n,          n <- n + 1
\*   "atan"  p/n added,  p <- -p*x,            n <- n + 2
\*   "atanh" p/n added,  p <-  p*x,            n <- n + 2
SeriesStep(kind, x, st) ==
  IF st.p = Zero THEN [st EXCEPT !.done = TRUE]
  ELSE [p    |-> NegIf(kind \in {"sin", "atan"},
                       DivI(Mul(st.p, x),
                            CASE kind = "sin" -> st.n * (st.n + 1)
                              [] kind = "exp" -> st.n
                              [] OTHER        -> 1)),
        n    |-> IF kind = "exp" THEN st.n + 1 ELSE st.n + 2,
        acc  |-> Add(st.acc, DivI(st.p, IF kind \in {"sin", "exp"} THEN 1 ELSE st.n)),
        done |-> FALSE]

RECURSIVE SeriesLoop(_, _, _, _)
\* at most k more terms, split in halves so that the evaluation nests log(k) deep
SeriesLoop(kind, x, st, k) ==
  IF st.done THEN st
  ELSE IF k = 1 THEN SeriesStep(kind, x, st)
  ELSE SeriesLoop(kind, x, SeriesLoop(kind, x, st, k \div 2), k - k \div 2)

\* more terms than any series here needs before its term underflows
MaxTerms == 32

\* the sum of the series of that kind in x, from the first term p of index n
Series(kind, x, p, n) ==
  After(x, After(p,
    SeriesLoop(kind, x, [p |-> p, n |-> n, acc |-> Zero, done |-> FALSE], MaxTerms).acc))

\* sin(r + k*pi/2) for |r| <= pi/4: r - r^3/3! + ... or 1 - r^2/2! + ...
TrigReduced(k, r) ==
  NegIf(k % 4 >= 2,
        Series("sin", Sq(r), IF k % 2 = 0 THEN r ELSE One, IF k % 2 = 0 THEN 2 ELSE 1))

\* the nearest multiple q of pi/2 to a >= 0
Quadrant(a) == IntPart(Add(Mul(a, TWO_OVER_PI), R(0, 5000, 0, 0, 0)))

\* sin(a + shift*pi/2) for a >= 0, with q = Quadrant(a)
TrigQuadrant(a, q, shift) == TrigReduced(q + shift, Sub(a, MulI(HALF_PI, q)))

TrigAbs(a, shift) == After(a, TrigQuadrant(a, Quadrant(a), shift))

Sin(x) == After(x, NegIf(x.neg, TrigAbs(Fabs(x), 0)))
Cos(x) == After(x, TrigAbs(Fabs(x), 1))
Tan(x) == Div(Sin(x), Cos(x))

\* atan(t) = t - t^3/3 + t^5/5 - ... for |t| <= tan(pi/8)
AtanSeries(t) == Series("atan", Sq(t), t, 1)

\* atan for 0 <= x <= 1: atan(x) = pi/4 + atan((x - 1)/(x + 1)) above tan(pi/8)
AtanShift(big, x) ==
  Add(IF big THEN QUARTER_PI ELSE Zero,
      AtanSeries(IF big THEN Div(Sub(x, One), Add(x, One)) ELSE x))

AtanUnit(x) == After(x, AtanShift(Gt(x, TAN_PI_8), x))

\* pi/2 - u or u
AtanFlip(inv, u) == IF inv THEN Sub(HALF_PI, u) ELSE u

\* the angle in [0, pi/2] of the point (x, y) with x, y >= 0, not both zero
AtanQ(y, x) ==
  IF y = Zero THEN Zero
  ELSE AtanFlip(Gt(y, x), AtanUnit(IF Gt(y, x) THEN Div(x, y) ELSE Div(y, x)))

\* pi - q or q
AtanReflect(left, q) == IF left THEN Sub(M_PI, q) ELSE q

Atan2(y, x) ==
  After(y, After(x, NegIf(y.neg, AtanReflect(x.neg, AtanQ(Fabs(y), Fabs(x))))))

Atan(x) == Atan2(x, One)

RECURSIVE Scale2(_, _)
\* x * 2^k
Scale2(x, k) ==
  IF k = 0 THEN x
  ELSE IF k > 13 THEN Scale2(MulI(x, 8192), k - 13)
  ELSE IF k < -13 THEN Scale2(DivI(x, 8192), k + 13)
  ELSE IF k > 0 THEN MulI(x, 2 ^ k)
  ELSE DivI(x, 2 ^ (-k))

\* exp(a) = 2^k * exp(a - k*ln2) for 0 <= a < 40
ExpScaled(a, k) == Scale2(Series("exp", Sub(a, MulI(LN2, k)), One, 1), k)

ExpPos(a) == ExpScaled(a, IntPart(Div(Add(a, DivI(LN2, 2)), LN2)))

\* 1/p or p
InvIf(b, p) == IF b THEN Div(One, p) ELSE p

\* exp(x) for |x| < 40
Exp(x) == After(x, InvIf(x.neg, ExpPos(Fabs(x))))

InLogBand(m) == Ge(m, R(0, 7500, 0, 0, 0)) /\ Lt(m, R(1, 5000, 0, 0, 0))

\* the k with 3/4 <= x / 2^k < 3/2, for x > 0; a magnitude of n limbs lies
\* in [Base^(n-1), Base^n) units of 1e-16, and log2(Base) = 13.29
LogExponent(x) ==
  CHOOSE k \in ((1329 * (Len(x.m) - 1) - 5315) \div 100 - 1)
                 ..((1329 * Len(x.m) - 5315) \div 100 + 2) :
    InLogBand(Scale2(x, -k))

\* log(m) = 2*atanh((m - 1)/(m + 1)) = 2*(t + t^3/3 + t^5/5 + ...)
AtanhSeries(t) == Series("atanh", Sq(t), t, 1)

LogMantissa(m) == MulI(AtanhSeries(Div(Sub(m, One), Add(m, One))), 2)

\* x * k for an integer k
MulInt(x, k) == IF k < 0 THEN Neg(MulI(x, -k)) ELSE MulI(x, k)

LogScaled(x, k) == Add(LogMantissa(Scale2(x, -k)), MulInt(LN2, k))

\* log(x) for x > 0
Log(x) == After(x, LogScaled(x, LogExponent(x)))

\* pow(x, y) for x > 0
Pow(x, y) == IF y = Zero THEN One ELSE Exp(Mul(y, Log(x)))

(***************************************************************************)
(* geoid.h: constants and the geometry of the ellipsoid.                   *)
(***************************************************************************)
DEGREE2RAD == DivI(M_PI, 180)
EPS == R(0, 0, 0, 100, 0)
MAX_ITER == 100

\* the Ellipsoid record as the wrapper fills it from a and f
Ellipsoid(a, f) ==
  [a |-> a, b |-> Mul(a, Sub(One, f)), e |-> Sqrt(Sub(MulI(f, 2), Sq(f))), f |-> f]

Geodesic(lon, lat, alt) == [longitude |-> lon, latitude |-> lat, altitude |-> alt]

nhu(a, e, latitude) == Div(a, Sqrt(Sub(One, Sq(Mul(e, Sin(latitude))))))

\* log(tan(pi/4 + latitude/2) * pow((1 - e*sin)/(1 + e*sin), e/2))
isometric_ratio(es) == Div(Sub(One, es), Add(One, es))

isometric_latitude(e, latitude) ==
  Log(Mul(Tan(Add(DivI(M_PI, 4), DivI(latitude, 2))),
          Pow(isometric_ratio(Mul(e, Sin(latitude))), DivI(e, 2))))

\* the marker of a C local or field that has not been assigned yet
Unset == "unset"

Locals(names) == [n \in names |-> Unset]

\* the while condition without the cap
LoopCondUncapped(u, v, i) == Gt(Fabs(Sub(u, v)), EPS)

\* the while condition with ten times the tolerance
LoopCondLoose(u, v, i) == i < MAX_ITER /\ Gt(Fabs(Sub(u, v)), MulI(EPS, 10))

\* The while condition every solver shares: not converged, and under the
\* cap.  The two tests have no side effect; the cheap one is made first.
LoopCond(u, v, i) == i < MAX_ITER /\ Gt(Fabs(Sub(u, v)), EPS)

\* a * (A0*latitude + A2*sin(2*latitude) + ... + A8*sin(8*latitude)); t[k] is
\* the term in sin(2*k*latitude)
meridian_sum(a, t0, t) == Mul(a, Add(Add(Add(Add(t0, t[1]), t[2]), t[3]), t[4]))

meridian_terms(a, latitude, A0, A) ==
  meridian_sum(a, Mul(A0, latitude),
               [k \in 1..4 |-> Mul(A[k], Sin(MulI(latitude, 2 * k)))])

meridian_coef(a, latitude, e2, e4, e6, e8) ==
  meridian_terms(a, latitude,
    Sub(Sub(Sub(Sub(One, DivI(e2, 4)), DivI(MulI(e4, 3), 64)),
            DivI(MulI(e6, 5), 256)), DivI(MulI(e8, 175), 16384)),
    << Sub(Sub(Sub(Neg(DivI(MulI(e2, 3), 8)), DivI(MulI(e4, 3), 32)),
               DivI(MulI(e6, 45), 1024)), DivI(MulI(e8, 420), 16384)),
       Add(Add(DivI(MulI(e4, 15), 256), DivI(MulI(e6, 45), 1024)),
           DivI(MulI(e8, 525), 16384)),
       Sub(Neg(DivI(MulI(e6, 35), 3072)), DivI(MulI(e8, 175), 12288)),
       DivI(MulI(e8, 315), 131072) >>)

meridian_powers(a, latitude, e2, e4) ==
  meridian_coef(a, latitude, e2, e4, Mul(e4, e2), Sq(e4))

meridian_distance(a, e, latitude) == meridian_powers(a, latitude, Sq(e), Sq(Sq(e)))

(***************************************************************************)
(* geoid.h: geodesic_latitude, the inverse of the isometric latitude.      *)
(* args = [e, iso_phi].  Each operator is the statement of that line.      *)
(***************************************************************************)
geodesic_latitude_locals == Locals({"i", "phi_i", "sinphi_i", "phi_ip1"})

geodesic_latitude_159(args, l) == [l EXCEPT !.i = 0]

geodesic_latitude_160(args, l) ==
  [l EXCEPT !.phi_i = Sub(MulI(Atan(Exp(args.iso_phi)), 2), DivI(M_PI, 2))]

geodesic_latitude_161(args, l) == [l EXCEPT !.sinphi_i = Sin(l.phi_i)]

\* (1+e*sinphi_i)/(1-e*sinphi_i), with es = e*sinphi_i
geodesic_latitude_ratio(es) == Div(Add(One, es), Sub(One, es))

geodesic_latitude_162(args, l) ==
  [l EXCEPT !.phi_ip1 =
     Sub(MulI(Atan(Mul(Pow(geodesic_latitude_ratio(Mul(args.e, l.sinphi_i)),
                           DivI(args.e, 2)),
                       Exp(args.iso_phi))), 2),
         DivI(M_PI, 2))]

geodesic_latitude_init(args) ==
  geodesic_latitude_162(args, geodesic_latitude_161(args, geodesic_latitude_160(args,
    geodesic_latitude_159(args, geodesic_latitude_locals))))

geodesic_latitude_165(args, l) == [l EXCEPT !.phi_i = l.phi_ip1]

geodesic_latitude_168(args, l) == [l EXCEPT !.i = l.i + 1]

\* lines 165-168; lines 166 and 167 repeat lines 161 and 162
geodesic_latitude_body(args, l) ==
  geodesic_latitude_168(args, geodesic_latitude_162(args, geodesic_latitude_161(args,
    geodesic_latitude_165(args, l))))

geodesic_latitude_return(args, l) == l.phi_ip1

(***************************************************************************)
(* geoid.h: footpoint_latitude.  args = [a, e, distance].                  *)
(***************************************************************************)
footpoint_latitude_locals == Locals({"i", "phi_i", "phi_ip1"})

footpoint_latitude_190(args, l) == [l EXCEPT !.i = 0]

footpoint_latitude_191(args, l) == [l EXCEPT !.phi_ip1 = Div(args.distance, args.a)]

footpoint_latitude_192(args, l) == [l EXCEPT !.phi_i = Neg(l.phi_ip1)]

footpoint_latitude_init(args) ==
  footpoint_latitude_192(args, footpoint_latitude_191(args,
    footpoint_latitude_190(args, footpoint_latitude_locals)))

footpoint_latitude_195(args, l) == [l EXCEPT !.phi_i = l.phi_ip1]

footpoint_latitude_196(args, l) ==
  [l EXCEPT !.phi_ip1 =
     Sub(l.phi_i, Div(Sub(meridian_distance(args.a, args.e, l.phi_i), args.distance),
                      args.a))]

footpoint_latitude_197(args, l) == [l EXCEPT !.i = l.i + 1]

footpoint_latitude_body(args, l) ==
  footpoint_latitude_197(args, footpoint_latitude_196(args,
    footpoint_latitude_195(args, l)))

footpoint_latitude_return(args, l) == l.phi_ip1

(***************************************************************************)
(* geoid.c: geocentric and geodesic.  args = [ellps, lla] and [ellps, xyz]. *)
(***************************************************************************)
Geocentric(x, y, z) == [x |-> x, y |-> y, z |-> z]

\* lines 84-86, with v of line 83
geocentric_result(ellps, lla, v) ==
  Geocentric(Mul(Mul(Add(v, lla.altitude), Cos(lla.latitude)), Cos(lla.longitude)),
             Mul(Mul(Add(v, lla.altitude), Cos(lla.latitude)), Sin(lla.longitude)),
             Mul(Add(Mul(v, Sub(One, Sq(ellps.e))), lla.altitude), Sin(lla.latitude)))

geocentric(ellps, lla) ==
  geocentric_result(ellps, lla, nhu(ellps.a, ellps.e, lla.latitude))

geodesic_locals == Locals({"i", "e2", "sqrt_xxpyy", "phi_i", "phi_ip1"})

geodesic_94(args, l) == [l EXCEPT !.i = 0]

geodesic_96(args, l) == [l EXCEPT !.e2 = Mul(args.ellps.e, args.ellps.e)]

geodesic_97(args, l) ==
  [l EXCEPT !.sqrt_xxpyy =
     Sqrt(Add(Mul(args.xyz.x, args.xyz.x), Mul(args.xyz.y, args.xyz.y)))]

geodesic_98(args, l) ==
  [l EXCEPT !.phi_i = Atan2(args.xyz.z, Mul(Sub(One, l.e2), l.sqrt_xxpyy))]

\* line 99 without the eccentricity term: the latitude of a sphere
geodesic_99_sphere(args, l) ==
  [l EXCEPT !.phi_ip1 = Atan2(args.xyz.z, l.sqrt_xxpyy)]

geodesic_99(args, l) ==
  [l EXCEPT !.phi_ip1 =
     Atan2(Add(args.xyz.z,
               Mul(Mul(l.e2, nhu(args.ellps.a, args.ellps.e, l.phi_i)), Sin(l.phi_i))),
           l.sqrt_xxpyy)]

geodesic_init(args) ==
  geodesic_99(args, geodesic_98(args, geodesic_97(args, geodesic_96(args,
    geodesic_94(args, geodesic_locals)))))

geodesic_102(args, l) == [l EXCEPT !.phi_i = l.phi_ip1]

geodesic_104(args, l) == [l EXCEPT !.i = l.i + 1]

\* lines 102-104; line 103 repeats line 99
geodesic_body(args, l) == geodesic_104(args, geodesic_99(args, geodesic_102(args, l)))

\* lines 107-109 with the estimate before the last one
geodesic_return_previous(args, l) ==
  Geodesic(Atan2(args.xyz.y, args.xyz.x),
           l.phi_i,
           Sub(Mul(Div(One, Cos(l.phi_i)), l.sqrt_xxpyy),
               nhu(args.ellps.a, args.ellps.e, l.phi_i)))

\* lines 107-109
geodesic_return(args, l) ==
  Geodesic(Atan2(args.xyz.y, args.xyz.x),
           l.phi_ip1,
           Sub(Mul(Div(One, Cos(l.phi_ip1)), l.sqrt_xxpyy),
               nhu(args.ellps.a, args.ellps.e, l.phi_ip1)))

(***************************************************************************)
(* geoid.c: distance, the Vincenty inverse.  args = [ellps, start, stop].  *)
(* A local is Unset until the code assigns it.                             *)
(***************************************************************************)
Vincenty_dist(d, ib, fb) == [distance |-> d, initial_bearing |-> ib, final_bearing |-> fb]

\* the result as lines 125-127 initialise it
distance_result_init == Vincenty_dist(Zero, Zero, Zero)

distance_locals ==
  Locals({"i", "x", "xp1", "L", "U1", "U2", "sU1", "cU1", "sU2", "cU2", "A", "B", "C",
          "u2", "k1", "sx", "cx", "ssigma", "csigma", "sigma", "salpha", "calpha2",
          "c2sigma_m", "Dsigma"})

distance_123(args, l) == [l EXCEPT !.i = 0]

\* L = ...;  the reduced latitudes of line 130
distance_129(args, l) ==
  [l EXCEPT !.L = Sub(args.stop.longitude, args.start.longitude),
            !.U1 = Atan(Mul(Sub(One, args.ellps.f), Tan(args.start.latitude))),
            !.U2 = Atan(Mul(Sub(One, args.ellps.f), Tan(args.stop.latitude)))]

\* x = L; xp1 = L+1;  and line 131
distance_131(args, l) ==
  [l EXCEPT !.x = l.L, !.xp1 = Add(l.L, One),
            !.cU1 = Cos(l.U1), !.sU1 = Sin(l.U1),
            !.cU2 = Cos(l.U2), !.sU2 = Sin(l.U2)]

distance_init(args) ==
  distance_131(args, distance_129(args, distance_123(args, distance_locals)))

distance_134(args, l) == [l EXCEPT !.sx = Sin(l.x), !.cx = Cos(l.x)]

\* line 135 with a sum in place of the difference
distance_135_sum(args, l) ==
  [l EXCEPT !.ssigma =
     Sqrt(Add(Sq(Mul(l.cU2, l.sx)),
              Sq(Add(Mul(l.cU1, l.sU2), Mul(Mul(l.sU1, l.cU2), l.cx)))))]

distance_135(args, l) ==
  [l EXCEPT !.ssigma =
     Sqrt(Add(Sq(Mul(l.cU2, l.sx)),
              Sq(Sub(Mul(l.cU1, l.sU2), Mul(Mul(l.sU1, l.cU2), l.cx)))))]

\* lines 134-135: the pass up to the test of ssigma
distance_ssigma(args, l) == distance_135(args, distance_134(args, l))

\* line 136: the two points coincide
distance_degenerate(l) == Lt(l.ssigma, EPS)

distance_137(args, l) ==
  [l EXCEPT !.csigma = Add(Mul(l.sU1, l.sU2), Mul(Mul(l.cU1, l.cU2), l.cx))]

\* lines 138-139
distance_138(args, l) ==
  [l EXCEPT !.sigma = Atan2(l.ssigma, l.csigma),
            !.salpha = Div(Mul(Mul(l.cU1, l.cU2), l.sx), l.ssigma)]

distance_140(args, l) == [l EXCEPT !.calpha2 = Sub(One, Sq(l.salpha))]

\* lines 141-145 with a hundredth of the tolerance
distance_141_loose(args, l) ==
  [l EXCEPT !.c2sigma_m =
              IF Lt(l.calpha2, DivI(EPS, 100)) THEN Zero
              ELSE Sub(l.csigma, Div(Mul(MulI(l.sU1, 2), l.sU2), l.calpha2)),
            !.C = Mul(Mul(DivI(args.ellps.f, 16), l.calpha2),
                      Add(I(4), Mul(args.ellps.f, Sub(I(4), MulI(l.calpha2, 3)))))]

\* lines 141-145
distance_141(args, l) ==
  [l EXCEPT !.c2sigma_m =
              IF Lt(l.calpha2, EPS) THEN Zero
              ELSE Sub(l.csigma, Div(Mul(MulI(l.sU1, 2), l.sU2), l.calpha2)),
            !.C = Mul(Mul(DivI(args.ellps.f, 16), l.calpha2),
                      Add(I(4), Mul(args.ellps.f, Sub(I(4), MulI(l.calpha2, 3)))))]

\* -1 + 2*c*c
TwoCosSqM1(c) == Add(I(-1), Mul(MulI(c, 2), c))

\* (1-C)*f*salpha*(sigma + C*ssigma*(c2sigma_m + C*csigma*(-1 + 2*c2sigma_m^2)))
VincentyL(f, l) ==
  Mul(Mul(Mul(Sub(One, l.C), f), l.salpha),
      Add(l.sigma, Mul(Mul(l.C, l.ssigma),
                       Add(l.c2sigma_m, Mul(Mul(l.C, l.csigma), TwoCosSqM1(l.c2sigma_m))))))

\* lines 146-148
distance_146(args, l) ==
  [l EXCEPT !.xp1 = l.x,
            !.x = Add(l.L, VincentyL(args.ellps.f, l)),
            !.i = l.i + 1]

\* lines 137-148: the rest of the pass
distance_update(args, l) ==
  distance_146(args, distance_141(args, distance_140(args, distance_138(args,
    distance_137(args, l)))))

distance_150(args, l) ==
  [l EXCEPT !.u2 = Div(Mul(l.calpha2, Sub(Mul(args.ellps.a, args.ellps.a),
                                          Mul(args.ellps.b, args.ellps.b))),
                       Sq(args.ellps.b))]

\* (s-1)/(s+1) with s = sqrt(1+u2)
distance_k1(s) == Div(Sub(s, One), Add(s, One))

distance_151(args, l) == [l EXCEPT !.k1 = distance_k1(Sqrt(Add(One, l.u2)))]

\* lines 152-153
distance_152(args, l) ==
  [l EXCEPT !.A = Div(Add(One, Mul(Mul(R(0, 2500, 0, 0, 0), l.k1), l.k1)),
                      Sub(One, l.k1)),
            !.B = Mul(l.k1, Sub(One, Mul(Mul(R(0, 3750, 0, 0, 0), l.k1), l.k1)))]

\* B*ssigma*(c2sigma_m + B/4*(csigma*(-1 + 2*c2sigma_m^2)
\*           - B/6*c2sigma_m*(-3 + 4*ssigma^2)*(-3 + 4*c2sigma_m^2)))
VincentyDsigma(l) ==
  Mul(Mul(l.B, l.ssigma),
      Add(l.c2sigma_m,
          Mul(DivI(l.B, 4),
              Sub(Mul(l.csigma, TwoCosSqM1(l.c2sigma_m)),
                  Mul(Mul(Mul(DivI(l.B, 6), l.c2sigma_m),
                          Add(I(-3), Mul(MulI(l.ssigma, 4), l.ssigma))),
                      Add(I(-3), Mul(MulI(l.c2sigma_m, 4), l.c2sigma_m)))))))

\* line 154 without the correction
distance_154_zero(args, l) == [l EXCEPT !.Dsigma = Zero]

distance_154(args, l) == [l EXCEPT !.Dsigma = VincentyDsigma(l)]

\* lines 156-158
distance_156(args, l) ==
  Vincenty_dist(Mul(Mul(args.ellps.b, l.A), Sub(l.sigma, l.Dsigma)),
                Atan2(Mul(l.cU2, l.sx),
                      Sub(Mul(l.cU1, l.sU2), Mul(Mul(l.sU1, l.cU2), l.cx))),
                Atan2(Mul(l.cU1, l.sx),
                      Add(Mul(Neg(l.sU1), l.cU2), Mul(Mul(l.cU1, l.sU2), l.cx))))

\* lines 150-160: what follows the loop
distance_return(args, l) ==
  distance_156(args, distance_154(args, distance_152(args, distance_151(args,
    distance_150(args, l)))))

(***************************************************************************)
(* geoid.c: destination, the Vincenty direct.  args = [ellps, start, dbb]. *)
(***************************************************************************)
Vincenty_dest(lon, lat, bearing) ==
  [longitude |-> lon, latitude |-> lat, destination_bearing |-> bearing]

destination_locals ==
  Locals({"i", "lambda", "phi2", "tU1", "cU1", "sU1", "sigma", "sigma1", "sigma_p",
          "salpha", "calpha2", "u2", "A", "B", "c2sigma_m", "Dsigma", "ssigma",
          "csigma", "C", "L", "tmp", "calpha1", "salpha1"})

destination_169(args, l) == [l EXCEPT !.i = 0]

\* lines 171-172
destination_171(args, l) ==
  [l EXCEPT !.calpha1 = Cos(args.dbb.initial_bearing),
            !.salpha1 = Sin(args.dbb.initial_bearing),
            !.tU1 = Mul(Sub(One, args.ellps.f), Tan(args.start.latitude))]

\* cU1 = ...;  and line 174
destination_173(args, l) ==
  [l EXCEPT !.cU1 = Div(One, Sqrt(Add(One, Mul(l.tU1, l.tU1)))),
            !.sigma1 = Atan2(l.tU1, l.calpha1)]

\* sU1 = tU1*cU1;  and line 175
destination_175(args, l) ==
  [l EXCEPT !.sU1 = Mul(l.tU1, l.cU1), !.salpha = Mul(l.cU1, l.salpha1)]

destination_176(args, l) == [l EXCEPT !.calpha2 = Sub(One, Mul(l.salpha, l.salpha))]

destination_177(args, l) ==
  [l EXCEPT !.u2 = Div(Mul(l.calpha2, Sub(Mul(args.ellps.a, args.ellps.a),
                                          Mul(args.ellps.b, args.ellps.b))),
                       Mul(args.ellps.b, args.ellps.b))]

\* lines 178-179
destination_178(args, l) ==
  [l EXCEPT
     !.A = Add(One, Mul(DivI(l.u2, 16384),
                        Add(I(4096), Mul(l.u2, Add(I(-768),
                            Mul(l.u2, Sub(I(320), MulI(l.u2, 175)))))))),
     !.B = Mul(DivI(l.u2, 1024),
               Add(I(256), Mul(l.u2, Add(I(-128),
                   Mul(l.u2, Sub(I(74), MulI(l.u2, 47)))))))]

destination_180(args, l) ==
  [l EXCEPT !.sigma = Div(args.dbb.distance, Mul(args.ellps.b, l.A)),
            !.sigma_p = MulI(M_PI, 2)]

\* lines 169-180; c2sigma_m, ssigma and csigma are left unassigned
destination_init(args) ==
  destination_180(args, destination_178(args, destination_177(args,
    destination_176(args, destination_175(args, destination_173(args,
      destination_171(args, destination_169(args, destination_locals))))))))

\* lines 183-185
destination_183(args, l) ==
  [l EXCEPT !.c2sigma_m = Cos(Add(MulI(l.sigma1, 2), l.sigma)),
            !.ssigma = Sin(l.sigma),
            !.csigma = Cos(l.sigma)]

destination_186(args, l) == [l EXCEPT !.Dsigma = VincentyDsigma(l)]

\* lines 187-189
destination_187(args, l) ==
  [l EXCEPT !.sigma_p = l.sigma,
            !.sigma = Add(Div(args.dbb.distance, Mul(args.ellps.b, l.A)), l.Dsigma),
            !.i = l.i + 1]

\* lines 183-189: one pass of the loop
destination_body(args, l) ==
  destination_187(args, destination_186(args, destination_183(args, l)))

destination_191(args, l) ==
  [l EXCEPT !.tmp = Sub(Mul(l.sU1, l.ssigma), Mul(Mul(l.cU1, l.csigma), l.calpha1))]

\* lines 192-194
destination_192(args, l) ==
  [l EXCEPT
     !.phi2 = Atan2(Add(Mul(l.sU1, l.csigma), Mul(Mul(l.cU1, l.ssigma), l.calpha1)),
                    Mul(Sub(One, args.ellps.f),
                        Sqrt(Add(Mul(l.salpha, l.salpha), Mul(l.tmp, l.tmp))))),
     !.lambda = Atan2(Mul(l.ssigma, l.salpha1),
                      Sub(Mul(l.cU1, l.csigma), Mul(Mul(l.sU1, l.ssigma), l.calpha1))),
     !.C = Mul(Mul(DivI(args.ellps.f, 16), l.calpha2),
               Add(I(4), Mul(args.ellps.f, Sub(I(4), MulI(l.calpha2, 3)))))]

destination_195(args, l) == [l EXCEPT !.L = Sub(l.lambda, VincentyL(args.ellps.f, l))]

\* lines 197-199
destination_197(args, l) ==
  Vincenty_dest(Add(args.start.longitude, l.L), l.phi2, Atan2(l.salpha, Neg(l.tmp)))

\* lines 191-201: what follows the loop
destination_return(args, l) ==
  destination_197(args, destination_195(args, destination_192(args,
    destination_191(args, l))))

(***************************************************************************)
(* The projections.  A Crs is a record [datum, lambda0, phi0, phi1, phi2,  *)
(* k0, x0, y0] with datum = [ellipsoid |-> an Ellipsoid]; a Geographic is  *)
(* [x, y, altitude].  forward is one function; inverse is split where it   *)
(* calls a latitude solver: its first part gives the argument of the call, *)
(* its second part takes the value returned.                               *)
(***************************************************************************)
Crs(ellps, lambda0, phi0, phi1, phi2, k0, x0, y0) ==
  [datum |-> [ellipsoid |-> ellps], lambda0 |-> lambda0, phi0 |-> phi0,
   phi1 |-> phi1, phi2 |-> phi2, k0 |-> k0, x0 |-> x0, y0 |-> y0, azimut |-> Zero]

Geographic(x, y, altitude) == [x |-> x, y |-> y, altitude |-> altitude]

\* a * (1 - e*e) / pow(1 - pow(e*sin(latitude), 2), 1.5)
rho(a, e, latitude) ==
  Div(Mul(a, Sub(One, Sq(e))),
      Pow(Sub(One, Sq(Mul(e, Sin(latitude)))), R(1, 5000, 0, 0, 0)))

(***************************************************************************)
(* part_003: Mercator                                                      *)
(***************************************************************************)
merc_ak0(crs) ==
  Mul(Cos(Fabs(crs.phi1)), nhu(crs.datum.ellipsoid.a, crs.datum.ellipsoid.e, crs.phi1))

merc_forward_10(crs, lla, ak0) ==
  Geographic(
    Add(crs.x0, Mul(Mul(crs.k0, ak0), Sub(lla.longitude, crs.lambda0))),
    Add(Mul(Mul(crs.k0, ak0),
            isometric_latitude(crs.datum.ellipsoid.e, Sub(lla.latitude, crs.phi0))),
        crs.y0),
    lla.altitude)

merc_forward(crs, lla) == merc_forward_10(crs, lla, merc_ak0(crs))

\* the argument of the call of geodesic_latitude at line 23
merc_inverse_23(crs, xya, ak0) ==
  [e |-> crs.datum.ellipsoid.e,
   iso_phi |-> Div(Sub(xya.y, crs.y0), Mul(ak0, crs.k0))]

merc_inverse_call(crs, xya) == merc_inverse_23(crs, xya, merc_ak0(crs))

merc_inverse_22(crs, xya, ak0, latitude) ==
  Geodesic(Add(Div(Sub(xya.x, crs.x0), Mul(ak0, crs.k0)), crs.lambda0),
           Add(latitude, crs.phi0),
           xya.altitude)

merc_inverse_return(crs, xya, latitude) ==
  merc_inverse_22(crs, xya, merc_ak0(crs), latitude)

(***************************************************************************)
(* part_004: Transverse Mercator                                           *)
(***************************************************************************)
F3 == 6
F4 == 24
F5 == 120
F6 == 720
F7 == 5040
F8 == 40320

\* w1 + z * (w2 + z*w3/F): the inner sums of X, Y, lambda and phi
tmerc_sum(z, w1, w2, w3, F) == Add(w1, Mul(z, Add(w2, DivI(Mul(z, w3), F))))

tmerc_forward_37(crs, lla, X, Y) ==
  Geographic(Add(Mul(crs.k0, X), crs.x0), Add(Mul(crs.k0, Y), crs.y0), lla.altitude)

\* lines 34-35 with the factor lc of X left out
tmerc_forward_34_nolc(crs, lla, m, v, lc, t, lc2, W3, W4, W5, W6, W7_, W8_) ==
  tmerc_forward_37(crs, lla,
    Mul(v, Add(One, Mul(lc2, tmerc_sum(lc2, DivI(W3, F3), DivI(W5, F5), W7_, F7)))),
    Add(m, Mul(Mul(Mul(v, t), lc2),
               Add(R(0, 5000, 0, 0, 0),
                   Mul(lc2, tmerc_sum(lc2, DivI(W4, F4), DivI(W6, F6), W8_, F8))))))

tmerc_forward_34(crs, lla, m, v, lc, t, lc2, W3, W4, W5, W6, W7_, W8_) ==
  tmerc_forward_37(crs, lla,
    Mul(Mul(v, lc),
        Add(One, Mul(lc2, tmerc_sum(lc2, DivI(W3, F3), DivI(W5, F5), W7_, F7)))),
    Add(m, Mul(Mul(Mul(v, t), lc2),
               Add(R(0, 5000, 0, 0, 0),
                   Mul(lc2, tmerc_sum(lc2, DivI(W4, F4), DivI(W6, F6), W8_, F8))))))

\* 4*B3*(1-6*t2), which W5, W6 and V5 share
tmerc_4B3(B3, t2) == Mul(MulI(B3, 4), Sub(One, MulI(t2, 6)))

\* 8*B4*(11-24*t2), which W6 and U6 share
tmerc_8B4(B4, t2) == Mul(MulI(B4, 8), Sub(I(11), MulI(t2, 24)))

tmerc_forward_27(crs, lla, m, v, lc, t, lc2, B, B2, B3, B4, t2, t4, t6) ==
  tmerc_forward_34(crs, lla, m, v, lc, t, lc2,
    Sub(B, t2),
    Sub(Add(MulI(B2, 4), B), t2),
    Add(Sub(Add(tmerc_4B3(B3, t2), Mul(B2, Add(One, MulI(t2, 8)))),
            Mul(MulI(B, 2), t2)), t4),
    Add(Sub(Add(Sub(tmerc_8B4(B4, t2), Mul(MulI(B3, 28), Sub(One, MulI(t2, 6)))),
                Mul(B2, Sub(One, MulI(t2, 32)))),
            Mul(MulI(B, 2), t2)), t4),
    Sub(Add(Sub(I(61), MulI(t2, 479)), MulI(t4, 179)), t6),
    Sub(Add(Sub(I(1385), MulI(t2, 3111)), MulI(t4, 543)), t6))

tmerc_forward_25(crs, lla, m, v, lc, t, lc2, B, B2, B3, t2, t4) ==
  tmerc_forward_27(crs, lla, m, v, lc, t, lc2, B, B2, B3, Mul(B, B3), t2, t4, Mul(t2, t4))

tmerc_forward_24(crs, lla, m, v, lc, t, lc2, B, B2, t2) ==
  tmerc_forward_25(crs, lla, m, v, lc, t, lc2, B, B2, Mul(B, B2), t2, Sq(t2))

tmerc_forward_21(crs, lla, m, v, B, lc, t) ==
  tmerc_forward_24(crs, lla, m, v, lc, t, Sq(lc), B, Sq(B), Sq(t))

tmerc_forward_18(crs, lla, m, v) ==
  tmerc_forward_21(crs, lla, m, v,
    Div(v, rho(crs.datum.ellipsoid.a, crs.datum.ellipsoid.e, lla.latitude)),
    Mul(Cos(lla.latitude), Sub(lla.longitude, crs.lambda0)),
    Tan(lla.latitude))

\* the meridian distances of latitude and of phi0, in this order
tmerc_forward_16(a, e, phi) == [k \in 1..2 |-> meridian_distance(a, e, phi[k])]

tmerc_forward_m(d) == Sub(d[1], d[2])

tmerc_forward(crs, lla) ==
  tmerc_forward_18(crs, lla,
    tmerc_forward_m(tmerc_forward_16(crs.datum.ellipsoid.a, crs.datum.ellipsoid.e,
                                     <<lla.latitude, crs.phi0>>)),
    nhu(crs.datum.ellipsoid.a, crs.datum.ellipsoid.e, lla.latitude))

\* the argument of the call of footpoint_latitude at line 48
tmerc_inverse_call(crs, xya) ==
  [a |-> crs.datum.ellipsoid.a,
   e |-> crs.datum.ellipsoid.e,
   distance |-> Add(meridian_distance(crs.datum.ellipsoid.a, crs.datum.ellipsoid.e, crs.phi0),
                    Div(Sub(xya.y, crs.y0), crs.k0))]

tmerc_inverse_71(crs, xya, lambda, phi) ==
  Geodesic(Add(lambda, crs.lambda0), phi, xya.altitude)

tmerc_inverse_68(crs, xya, f, x, x2, B, t, c, V3, V5, V7_, U4, U6, U8_) ==
  tmerc_inverse_71(crs, xya,
    Mul(Div(x, c),
        Sub(One, Mul(x2, tmerc_sum(x2, DivI(V3, F3), DivI(V5, F5), V7_, F7)))),
    Sub(f, Mul(Mul(Mul(x2, B), t),
               Add(R(0, 5000, 0, 0, 0),
                   Mul(x2, tmerc_sum(x2, DivI(U4, F4), DivI(U6, F6), U8_, F8))))))

tmerc_inverse_61(crs, xya, f, x, x2, B, t, c, B2, B3, B4, t2, t4, t6) ==
  tmerc_inverse_68(crs, xya, f, x, x2, B, t, c,
    Add(B, MulI(t2, 2)),
    Sub(Sub(Sub(tmerc_4B3(B3, t2), Mul(B2, Sub(I(9), MulI(t2, 68)))),
            Mul(MulI(B, 72), t2)), MulI(t4, 24)),
    Add(Add(Add(I(61), MulI(t2, 662)), MulI(t4, 1320)), MulI(t6, 720)),
    Sub(Sub(MulI(B2, 4), Mul(MulI(B, 9), Sub(One, t2))), MulI(t2, 12)),
    Add(Add(Add(Sub(tmerc_8B4(B4, t2), Mul(MulI(B3, 12), Sub(I(21), MulI(t2, 71)))),
                Mul(MulI(B2, 15), Add(Sub(I(15), MulI(t2, 98)), MulI(t4, 15)))),
            Mul(MulI(B, 180), Sub(MulI(t2, 5), MulI(t4, 3)))),
        MulI(t4, 360)),
    Sub(Sub(Sub(I(-1385), MulI(t2, 3633)), MulI(t4, 4095)), MulI(t6, 1575)))

tmerc_inverse_59(crs, xya, f, x, x2, B, t, c, B2, B3, t2, t4) ==
  tmerc_inverse_61(crs, xya, f, x, x2, B, t, c, B2, B3, Mul(B, B3), t2, t4, Mul(t2, t4))

tmerc_inverse_58(crs, xya, f, x, x2, B, t, c, B2, t2) ==
  tmerc_inverse_59(crs, xya, f, x, x2, B, t, c, B2, Mul(B, B2), t2, Sq(t2))

tmerc_inverse_53(crs, xya, f, x, B, t) ==
  tmerc_inverse_58(crs, xya, f, x, Sq(x), B, t, Cos(f), Sq(B), Sq(t))

tmerc_inverse_50(crs, xya, f, v) ==
  tmerc_inverse_53(crs, xya, f,
    Div(Sub(xya.x, crs.x0), Mul(crs.k0, v)),
    Div(v, rho(crs.datum.ellipsoid.a, crs.datum.ellipsoid.e, f)),
    Tan(f))

tmerc_inverse_return(crs, xya, f) ==
  tmerc_inverse_50(crs, xya, f, nhu(crs.datum.ellipsoid.a, crs.datum.ellipsoid.e, f))

(***************************************************************************)
(* part_005: Lambert Conformal Conic.  coef returns result[0..4] =         *)
(* lambda0, n, c, xs, ys.                                                  *)
(***************************************************************************)
Coef(lambda0, n, c, xs, ys) == [lambda0 |-> lambda0, n |-> n, c |-> c, xs |-> xs, ys |-> ys]

\* lines 13-21: the two standard parallels
coef_20(crs, iso_phi0, n, c) ==
  Coef(crs.lambda0, n, c, crs.x0,
       IF Lt(Fabs(Sub(crs.phi0, DivI(M_PI, 2))), EPS) THEN crs.y0
       ELSE Add(crs.y0, Mul(c, Exp(Mul(Neg(n), iso_phi0)))))

coef_18(crs, iso_phi0, nhu_phi1, iso_phi1, n) ==
  coef_20(crs, iso_phi0, n,
          Mul(Div(Mul(nhu_phi1, Cos(crs.phi1)), n), Exp(Mul(n, iso_phi1))))

coef_17(crs, iso_phi0, nhu_phi1, iso_phi1, nhu_phi2, iso_phi2) ==
  coef_18(crs, iso_phi0, nhu_phi1, iso_phi1,
          Div(Log(Div(Mul(nhu_phi2, Cos(crs.phi2)), Mul(nhu_phi1, Cos(crs.phi1)))),
              Sub(iso_phi1, iso_phi2)))

\* nhu and isometric_latitude of phi1 and phi2
coef_13(crs, iso_phi0, nhus, isos) ==
  coef_17(crs, iso_phi0, nhus[1], isos[1], nhus[2], isos[2])

coef_parallels(crs, iso_phi0, phi) ==
  coef_13(crs, iso_phi0,
    [k \in 1..2 |-> nhu(crs.datum.ellipsoid.a, crs.datum.ellipsoid.e, phi[k])],
    [k \in 1..2 |-> isometric_latitude(crs.datum.ellipsoid.e, phi[k])])

\* lines 23-27: the tangent cone
coef_24(crs, iso_phi0, n, knc) ==
  Coef(crs.lambda0, n, Mul(knc, Exp(Mul(n, iso_phi0))), crs.x0, Add(crs.y0, knc))

coef_tangent(crs, iso_phi0, nhu_phi0) ==
  coef_24(crs, iso_phi0, Sin(crs.phi0),
          Mul(Mul(crs.k0, nhu_phi0), Div(One, Tan(crs.phi0))))

\* what the unassigned n, c, xs and ys may hold when lines 31-34 read them
CoefGarbage == {One, Two}

\* The values coef can return.  When phi1 == phi2 and phi0 == 0 neither
\* branch runs and n, c, xs, ys are read unassigned.
coef(crs) ==
  IF crs.phi1 # crs.phi2
  THEN {coef_parallels(crs, isometric_latitude(crs.datum.ellipsoid.e, crs.phi0),
                       <<crs.phi1, crs.phi2>>)}
  ELSE IF crs.phi0 # Zero
  THEN {coef_tangent(crs, isometric_latitude(crs.datum.ellipsoid.e, crs.phi0),
                     nhu(crs.datum.ellipsoid.a, crs.datum.ellipsoid.e, crs.phi0))}
  ELSE {Coef(crs.lambda0, g[1], g[2], g[3], g[4]) :
          g \in CoefGarbage \X CoefGarbage \X CoefGarbage \X CoefGarbage}

\* sin and cos of result[1]*(longitude - result[0])
lcc_forward_45(lla, result, r, sc) ==
  Geographic(Add(result.xs, Mul(r, sc[1])), Sub(result.ys, Mul(r, sc[2])), lla.altitude)

lcc_forward_43(lla, result, L, w) ==
  lcc_forward_45(lla, result, Mul(result.c, Exp(Mul(Neg(result.n), L))),
                 <<Sin(w), Cos(w)>>)

lcc_forward(crs, lla, result) ==
  lcc_forward_43(lla, result, isometric_latitude(crs.datum.ellipsoid.e, lla.latitude),
                 Mul(result.n, Sub(lla.longitude, result.lambda0)))

\* the argument of the call of geodesic_latitude at line 61
lcc_inverse_61(crs, result, R_) ==
  [e |-> crs.datum.ellipsoid.e,
   iso_phi |-> Mul(Div(I(-1), result.n), Log(Fabs(Div(R_, result.c))))]

lcc_inverse_call(crs, xya, result) ==
  lcc_inverse_61(crs, result,
    Sqrt(Add(Sq(Sub(xya.x, result.xs)), Sq(Sub(xya.y, result.ys)))))

lcc_inverse_60(xya, result, v, latitude) ==
  Geodesic(Add(result.lambda0, Div(v, result.n)), latitude, xya.altitude)

lcc_inverse_return(crs, xya, result, latitude) ==
  lcc_inverse_60(xya, result,
                 Atan2(Sub(xya.x, result.xs), Sub(result.ys, xya.y)), latitude)

(***************************************************************************)
(* miller.c                                                                *)
(***************************************************************************)
miller_forward(crs, lla) ==
  Geographic(
    Add(Mul(crs.datum.ellipsoid.a, Sub(lla.longitude, crs.lambda0)), crs.x0),
    Add(Mul(Mul(crs.datum.ellipsoid.a, R(1, 2500, 0, 0, 0)),
            Log(Tan(Add(DivI(M_PI, 4), Mul(R(0, 4000, 0, 0, 0), lla.latitude))))),
        crs.y0),
    lla.altitude)

miller_inverse(crs, xya) ==
  Geodesic(
    Add(Div(Sub(xya.x, crs.x0), crs.datum.ellipsoid.a), crs.lambda0),
    Mul(R(2, 5000, 0, 0, 0),
        Sub(Atan(Exp(Div(Mul(R(0, 8000, 0, 0, 0), Sub(xya.y, crs.y0)),
                         crs.datum.ellipsoid.a))),
            DivI(M_PI, 4))),
    xya.altitude)

(***************************************************************************)
(* part_005: Equirectangular                                               *)
(***************************************************************************)
eqc_forward(crs, lla) ==
  Geographic(
    Add(Mul(Mul(Cos(crs.phi1), Sub(lla.longitude, crs.lambda0)), crs.datum.ellipsoid.a),
        crs.x0),
    Add(Mul(Sub(lla.latitude, crs.phi0), crs.datum.ellipsoid.a), crs.y0),
    lla.altitude)

eqc_inverse(crs, xya) ==
  Geodesic(
    Add(Div(Sub(xya.x, crs.x0), Mul(Cos(crs.phi1), crs.datum.ellipsoid.a)), crs.lambda0),
    Add(Div(Sub(xya.y, crs.y0), crs.datum.ellipsoid.a), crs.phi0),
    xya.altitude)

(***************************************************************************)
(* geoid.c: dat2dat, the seven-parameter shift of a geocentric point from  *)
(* the datum src to the datum dst.                                         *)
(***************************************************************************)
ARCSEC2RAD == Div(M_PI, I(648000))

Prime(epsg, longitude) == [epsg |-> epsg, longitude |-> longitude]

\* t = <<dx, dy, dz>> in metres, r = <<rx, ry, rz>> in arc seconds, ds in ppm
Datum(ellps, prime, epsg, ds, t, r) ==
  [ellipsoid |-> ellps, prime |-> prime, epsg |-> epsg, ds |-> ds,
   dx |-> t[1], dy |-> t[2], dz |-> t[3], rx |-> r[1], ry |-> r[2], rz |-> r[3]]

dat2dat_locals == Locals({"rx", "ry", "rz", "ds"})

dat2dat_209(src, dst, l) == [l EXCEPT !.rx = Mul(Sub(src.rx, dst.rx), ARCSEC2RAD)]

dat2dat_210(src, dst, l) == [l EXCEPT !.ry = Mul(Sub(src.ry, dst.ry), ARCSEC2RAD)]

\* the rotation about z left in arc seconds
dat2dat_211_arcsec(src, dst, l) == [l EXCEPT !.rz = Sub(src.rz, dst.rz)]

dat2dat_211(src, dst, l) == [l EXCEPT !.rz = Mul(Sub(src.rz, dst.rz), ARCSEC2RAD)]

\* the scale of the source alone
dat2dat_212_src(src, dst, l) == [l EXCEPT !.ds = Div(src.ds, I(1000000))]

dat2dat_212(src, dst, l) == [l EXCEPT !.ds = Div(Sub(src.ds, dst.ds), I(1000000))]

dat2dat_214(src, dst, xyz, l) ==
  Add(Sub(src.dx, dst.dx),
      Mul(Add(One, l.ds), Add(Sub(xyz.x, Mul(l.rz, xyz.y)), Mul(l.ry, xyz.z))))

dat2dat_215(src, dst, xyz, l) ==
  Add(Sub(src.dy, dst.dy),
      Mul(Add(One, l.ds), Sub(Add(Mul(l.rz, xyz.x), xyz.y), Mul(l.rx, xyz.z))))

dat2dat_216(src, dst, xyz, l) ==
  Add(Sub(src.dz, dst.dz),
      Mul(Add(One, l.ds), Add(Add(Mul(Neg(l.ry), xyz.x), Mul(l.rx, xyz.y)), xyz.z)))

dat2dat_return(src, dst, xyz, l) ==
  Geocentric(dat2dat_214(src, dst, xyz, l), dat2dat_215(src, dst, xyz, l),
             dat2dat_216(src, dst, xyz, l))

dat2dat(src, dst, xyz) ==
  dat2dat_return(src, dst, xyz,
    dat2dat_212(src, dst,
      dat2dat_211(src, dst, dat2dat_210(src, dst, dat2dat_209(src, dst, dat2dat_locals)))))

(***************************************************************************)
(* omerc.c: Oblique Mercator.  asin and log leave their domain for some    *)
(* inputs; the result is then NaN, which every later operation keeps.      *)
(***************************************************************************)
NaN == [nan |-> TRUE]

NNeg(x) == IF x = NaN THEN NaN ELSE Neg(x)
NAdd(x, y) == IF x = NaN \/ y = NaN THEN NaN ELSE Add(x, y)
NSub(x, y) == IF x = NaN \/ y = NaN THEN NaN ELSE Sub(x, y)
NMul(x, y) == IF x = NaN \/ y = NaN THEN NaN ELSE Mul(x, y)
\* the callers keep y # 0
NDiv(x, y) == IF x = NaN \/ y = NaN THEN NaN ELSE Div(x, y)
NSin(x) == IF x = NaN THEN NaN ELSE Sin(x)
NCos(x) == IF x = NaN THEN NaN ELSE Cos(x)
NTan(x) == IF x = NaN THEN NaN ELSE Tan(x)
NAtan2(y, x) == IF x = NaN \/ y = NaN THEN NaN ELSE Atan2(y, x)

\* asin(x): NaN outside [-1, 1]
Asin(x) ==
  IF x = NaN THEN NaN
  ELSE IF Gt(Fabs(x), One) THEN NaN
  ELSE Atan2(x, Sqrt(Sub(One, Sq(x))))

\* log(x) where x may be negative or NaN; the callers keep x # 0
NLog(x) == IF x = NaN THEN NaN ELSE IF Le(x, Zero) THEN NaN ELSE Log(x)

\* (int)x: the double x cut to an int, toward zero
IntCast(x) == IF x.neg THEN -IntPart(Fabs(x)) ELSE IntPart(x)

\* abs(n) of <stdlib.h>
abs(n) == IF n < 0 THEN -n ELSE n

\* 1 or -1, which lines 32 and 37 multiply by
omerc_sign(phi0) == IF Gt(phi0, Zero) THEN One ELSE I(-1)

omerc_coef_locals ==
  Locals({"e2", "cphi0", "sphi0", "B", "A", "t0", "D", "D2", "F", "H", "G", "g0", "l0",
          "uc", "vc"})

omerc_coef_24(e, l) == [l EXCEPT !.e2 = Mul(e, e)]

omerc_coef_25(phi0, l) == [l EXCEPT !.cphi0 = Cos(phi0), !.sphi0 = Sin(phi0)]

omerc_coef_27(l) ==
  [l EXCEPT !.B = Sqrt(Add(One, Div(Mul(l.e2, Sq(Sq(l.cphi0))), Sub(One, l.e2))))]

omerc_coef_28(a, lambda0, k0, l) ==
  [l EXCEPT !.A = Div(Sqrt(Mul(Mul(Mul(a, l.B), k0), Sub(One, l.e2))),
                      Sub(One, Mul(l.e2, Sq(Sin(lambda0)))))]

omerc_coef_29(e, phi0, l) ==
  [l EXCEPT !.t0 = Div(Tan(Sub(DivI(M_PI, 4), DivI(phi0, 2))),
                       Pow(Div(Sub(One, Mul(e, l.sphi0)), Add(One, Mul(e, l.sphi0))),
                           DivI(e, 2)))]

omerc_coef_30(l) ==
  [l EXCEPT !.D = Div(Mul(l.B, Sqrt(Sub(One, l.e2))),
                      Mul(l.cphi0, Sqrt(Sub(One, Mul(l.e2, Sq(l.sphi0))))))]

omerc_coef_31(l) == [l EXCEPT !.D2 = IF Gt(l.D, One) THEN Sq(l.D) ELSE One]

omerc_coef_32(phi0, l) ==
  [l EXCEPT !.F = Add(l.D, Mul(Sqrt(Sub(l.D2, One)), omerc_sign(phi0)))]

omerc_coef_33(l) == [l EXCEPT !.H = Pow(Mul(l.F, l.t0), l.B)]

omerc_coef_34(l) == [l EXCEPT !.G = DivI(Sub(l.F, Div(One, l.F)), 2)]

omerc_coef_35(azimut, l) == [l EXCEPT !.g0 = Asin(Div(Sin(azimut), l.D))]

omerc_coef_36(phi0, l) ==
  [l EXCEPT !.l0 = NSub(phi0, NDiv(Asin(NMul(l.G, NTan(l.g0))), l.B))]

\* the right-angle formula for every azimuth whose cosine is cut to 0
omerc_coef_37(lambda0, phi0, azimut, l) ==
  [l EXCEPT !.uc =
     IF Lt(I(abs(IntCast(Cos(azimut)))), EPS)
     THEN NMul(l.A, NSub(lambda0, l.l0))
     ELSE Mul(Mul(Div(l.A, l.B), Atan2(Sqrt(Sub(l.D2, One)), Cos(azimut))),
              omerc_sign(phi0))]

omerc_coef_38(l) == [l EXCEPT !.vc = Zero]

OmercCoef(l) ==
  [k \in {"B", "A", "t0", "D", "D2", "F", "H", "G", "g0", "l0", "uc", "vc"} |-> l[k]]

omerc_coef(a, e, lambda0, phi0, k0, azimut) ==
  OmercCoef(
    omerc_coef_38(omerc_coef_37(lambda0, phi0, azimut,
      omerc_coef_36(phi0, omerc_coef_35(azimut,
        omerc_coef_34(omerc_coef_33(omerc_coef_32(phi0,
          omerc_coef_31(omerc_coef_30(omerc_coef_29(e, phi0,
            omerc_coef_28(a, lambda0, k0,
              omerc_coef_27(omerc_coef_25(phi0,
                omerc_coef_24(e, omerc_coef_locals)))))))))))))))

\* the call of omerc_coef at lines 49 and 81
omerc_coef_of(crs) ==
  omerc_coef(crs.datum.ellipsoid.a, crs.datum.ellipsoid.e, crs.lambda0, crs.phi0, crs.k0,
             crs.azimut)

omerc_forward_locals ==
  Locals({"coef", "t", "Q", "S", "T", "V", "U", "v", "u", "cphi", "sphi"})

omerc_forward_49(crs, l) == [l EXCEPT !.coef = omerc_coef_of(crs)]

omerc_forward_50(lla, l) == [l EXCEPT !.cphi = Cos(lla.latitude), !.sphi = Sin(lla.latitude)]

\* the base of pow is 1 - (e*sphi/(1 + e*sphi))
omerc_forward_52(e, lla, l) ==
  [l EXCEPT !.t = Div(Tan(Sub(DivI(M_PI, 4), DivI(lla.latitude, 2))),
                      Pow(Sub(One, Div(Mul(e, l.sphi), Add(One, Mul(e, l.sphi)))),
                          DivI(e, 2)))]

omerc_forward_54(l) == [l EXCEPT !.Q = Div(l.coef.H, Pow(l.t, l.coef.B))]

omerc_forward_56(l) == [l EXCEPT !.S = DivI(Sub(l.Q, Div(One, l.Q)), 2)]

omerc_forward_58(l) == [l EXCEPT !.T = DivI(Add(l.Q, Div(One, l.Q)), 2)]

omerc_forward_60(lla, l) ==
  [l EXCEPT !.V = NSin(NMul(l.coef.B, NSub(lla.longitude, l.coef.l0)))]

\* the sum is not divided by T
omerc_forward_62(l) ==
  [l EXCEPT !.U = NAdd(NMul(NNeg(l.V), NCos(l.coef.g0)), NMul(l.S, NSin(l.coef.g0)))]

omerc_forward_64(l) ==
  [l EXCEPT !.v = NDiv(NMul(l.coef.A, NLog(NDiv(NSub(One, l.U), NAdd(One, l.U)))),
                       MulI(l.coef.B, 2))]

omerc_forward_66(lla, l) ==
  [l EXCEPT !.u =
     NDiv(NMul(l.coef.A,
               NAtan2(NAdd(NMul(l.S, NCos(l.coef.g0)), NMul(l.V, NSin(l.coef.g0))),
                      NCos(NMul(l.coef.B, NSub(lla.longitude, l.coef.l0))))),
          l.coef.B)]

omerc_forward_67(l) == [l EXCEPT !.u = NSub(l.u, l.coef.uc)]

\* lines 72-74 without the altitude
omerc_forward_72_flat(crs, lla, l) ==
  Geographic(NAdd(l.u, crs.x0), NAdd(l.v, crs.y0), Zero)

omerc_forward_72(crs, lla, l) ==
  Geographic(NAdd(l.u, crs.x0), NAdd(l.v, crs.y0), lla.altitude)

omerc_forward(crs, lla) ==
  omerc_forward_72(crs, lla,
    omerc_forward_67(omerc_forward_66(lla, omerc_forward_64(omerc_forward_62(
      omerc_forward_60(lla, omerc_forward_58(omerc_forward_56(omerc_forward_54(
        omerc_forward_52(crs.datum.ellipsoid.e, lla,
          omerc_forward_50(lla, omerc_forward_49(crs, omerc_forward_locals))))))))))))

\* what the unassigned fields of lla may hold when line 82 returns it
OmercGarbage == {Zero, One}

\* omerc_inverse computes the coefficients and returns lla as declared
omerc_inverse(crs, xya) ==
  After(omerc_coef_of(crs),
        {Geodesic(g[1], g[2], g[3]) : g \in OmercGarbage \X OmercGarbage \X OmercGarbage})

(***************************************************************************)
(* geoid.c: dms and dmm, a value in degrees as sign, degrees, minutes and  *)
(* seconds, or as sign, degrees and decimal minutes.                       *)
(***************************************************************************)
Dms(sign, degree, minute, second) ==
  [sign |-> sign, degree |-> degree, minute |-> minute, second |-> second]

Dmm(sign, degree, minute) == [sign |-> sign, degree |-> degree, minute |-> minute]

\* floor(x) for x >= 0
floor(x) == I(IntPart(x))

\* fmod(x, 360) for x >= 0: the remainder is exact
fmod360(x) == Add(I(IntPart(x) % 360), Sub(x, floor(x)))

dms_locals == Locals({"value", "sign", "degrees", "minutes", "seconds"})

dms_36(value, l) == [l EXCEPT !.sign = IF Lt(value, Zero) THEN 0 ELSE 1]

dms_38(value, l) == [l EXCEPT !.value = fmod360(Fabs(value))]

dms_40(l) == [l EXCEPT !.degrees = floor(l.value)]

dms_41(l) == [l EXCEPT !.minutes = MulI(Sub(l.value, l.degrees), 60)]

dms_42(l) == [l EXCEPT !.seconds = MulI(Sub(l.minutes, floor(l.minutes)), 60)]

dms_43(l) == [l EXCEPT !.minutes = floor(l.minutes)]

\* lines 36-43: the locals before the carries
dms_split(value) == dms_43(dms_42(dms_41(dms_40(dms_38(value, dms_36(value, dms_locals))))))

\* line 45 without its effect
dms_45_keep(l) == l

dms_45(l) ==
  IF Ge(l.seconds, Sub(I(60), EPS))
  THEN [l EXCEPT !.seconds = Zero, !.minutes = Add(l.minutes, One)]
  ELSE l

dms_46(l) ==
  IF Ge(l.minutes, Sub(I(60), EPS))
  THEN [l EXCEPT !.minutes = Zero, !.degrees = Add(l.degrees, One)]
  ELSE l

dms_48(l) == Dms(l.sign, l.degrees, l.minutes, l.seconds)

\* lines 45-52
dms_carry(l) == dms_48(dms_46(dms_45(l)))

dms(value) == dms_carry(dms_split(value))

dmm_locals == Locals({"value", "sign", "degrees", "minutes"})

dmm_59(value, l) == [l EXCEPT !.sign = IF Lt(value, Zero) THEN 0 ELSE 1]

dmm_61(value, l) == [l EXCEPT !.value = fmod360(Fabs(value))]

dmm_63(l) == [l EXCEPT !.degrees = floor(l.value)]

dmm_64(l) == [l EXCEPT !.minutes = MulI(Sub(l.value, l.degrees), 60)]

\* lines 59-64: the locals before the carry
dmm_split(value) == dmm_64(dmm_63(dmm_61(value, dmm_59(value, dmm_locals))))

dmm_66(l) ==
  IF Ge(l.minutes, Sub(I(60), EPS))
  THEN [l EXCEPT !.minutes = Zero, !.degrees = Add(l.degrees, One)]
  ELSE l

dmm_68(l) == Dmm(l.sign, l.degrees, l.minutes)

\* lines 66-71
dmm_carry(l) == dmm_68(dmm_66(l))

dmm(value) == dmm_carry(dmm_split(value))


(***************************************************************************)
(* geoid.c: lagrange, the interpolating polynomial through the n points    *)
(* (nx[k], ny[k]), k = 0..n-1, at x.                                       *)
(***************************************************************************)
lagrange_locals == Locals({"result", "xi", "xj", "p", "i", "j"})

\* line 254 and the start of the outer for statement
lagrange_254(l) == [l EXCEPT !.result = Zero, !.j = 0]

\* the condition of the outer for statement
lagrange_255(args, l) == l.j < args.n

\* line 256 and the start of the inner for statement
lagrange_256(l) == [l EXCEPT !.p = One, !.i = 0]

\* the condition of the inner for statement
lagrange_257(args, l) == l.i < args.n

\* lines 259-260
lagrange_259(args, l) == [l EXCEPT !.xi = args.nx[l.i], !.xj = args.nx[l.j]]

\* line 261 with the node of the term in the numerator
lagrange_261_swapped(args, l) ==
  IF l.xj # l.xi
  THEN [l EXCEPT !.p = Mul(l.p, Div(Sub(args.x, l.xj), Sub(l.xj, l.xi)))]
  ELSE l

lagrange_261(args, l) ==
  IF l.xj # l.xi
  THEN [l EXCEPT !.p = Mul(l.p, Div(Sub(args.x, l.xi), Sub(l.xj, l.xi)))]
  ELSE l

\* the step of the inner for statement
lagrange_257_step(l) == [l EXCEPT !.i = l.i + 1]

\* lines 258-262: one pass of the inner loop
lagrange_inner(args, l) ==
  lagrange_257_step(IF l.i # l.j THEN lagrange_261(args, lagrange_259(args, l)) ELSE l)

\* line 264 and the step of the outer for statement
lagrange_264(args, l) ==
  [l EXCEPT !.result = Add(l.result, Mul(args.ny[l.j], l.p)), !.j = l.j + 1]
(***************************************************************************)
(* The calls as a state machine.  One solver call runs at a time: op and   *)
(* args are the function and its arguments, pc the position in its body,   *)
(* loc its locals and ret the value it returned.  log lists the finished   *)
(* calls in the order they returned.  caller is the frame of the function  *)
(* that made the call: npoints, or a test that chains two calls.           *)
(***************************************************************************)
VARIABLES op, args, pc, loc, ret, log, caller

vars == <<op, args, pc, loc, ret, log, caller>>

LatitudeSolvers == {"geodesic_latitude", "footpoint_latitude", "geodesic"}

\* the locals at the first test of the while condition; geocentric has no loop
SolverInit(o, a) ==
  CASE o = "geodesic_latitude"  -> geodesic_latitude_init(a)
    [] o = "footpoint_latitude" -> footpoint_latitude_init(a)
    [] o = "geodesic"           -> geodesic_init(a)
    [] o = "distance"           -> distance_init(a)
    [] o = "destination"        -> destination_init(a)
    [] o = "geocentric"         -> [i |-> 0]

\* the while condition of each function
SolverCond(o, l) ==
  CASE o \in LatitudeSolvers -> LoopCond(l.phi_i, l.phi_ip1, l.i)
    [] o = "distance"        -> LoopCond(l.x, l.xp1, l.i)
    [] o = "destination"     -> LoopCond(l.sigma, l.sigma_p, l.i)
    [] o = "geocentric"      -> FALSE

\* one pass of the loop (distance's pass is split at its early return)
SolverBody(o, a, l) ==
  CASE o = "geodesic_latitude"  -> geodesic_latitude_body(a, l)
    [] o = "footpoint_latitude" -> footpoint_latitude_body(a, l)
    [] o = "geodesic"           -> geodesic_body(a, l)
    [] o = "destination"        -> destination_body(a, l)

\* the value returned after the loop
SolverReturn(o, a, l) ==
  CASE o = "geodesic_latitude"  -> geodesic_latitude_return(a, l)
    [] o = "footpoint_latitude" -> footpoint_latitude_return(a, l)
    [] o = "geodesic"           -> geodesic_return(a, l)
    [] o = "distance"           -> distance_return(a, l)
    [] o = "destination"        -> destination_return(a, l)
    [] o = "geocentric"         -> geocentric(a.ellps, a.lla)

\* what an unassigned double may hold when it is read
Garbage == {Zero, One}

\* destination reads c2sigma_m, ssigma and csigma after the loop; when the
\* loop does not run they hold whatever the stack held
EntryLocals(o, l) ==
  IF o = "destination" /\ ~SolverCond(o, l)
  THEN {[l EXCEPT !.c2sigma_m = g[1], !.ssigma = g[2], !.csigma = g[3]] :
          g \in Garbage \X Garbage \X Garbage}
  ELSE {l}

Finished(o, a, r, l) == [op |-> o, args |-> a, ret |-> r, i |-> l.i]

Enter ==
  /\ pc = "call"
  /\ loc' \in EntryLocals(op, SolverInit(op, args))
  /\ pc' = "loop"
  /\ UNCHANGED <<op, args, ret, log, caller>>

Iterate ==
  /\ pc = "loop"
  /\ op # "distance"
  /\ SolverCond(op, loc)
  /\ loc' = SolverBody(op, args, loc)
  /\ UNCHANGED <<op, args, pc, ret, log, caller>>

DistanceSsigma ==
  /\ pc = "loop"
  /\ op = "distance"
  /\ SolverCond(op, loc)
  /\ loc' = distance_ssigma(args, loc)
  /\ pc' = "ssigma"
  /\ UNCHANGED <<op, args, ret, log, caller>>

DistanceDegenerate ==
  /\ pc = "ssigma"
  /\ distance_degenerate(loc)
  /\ ret' = distance_result_init
  /\ pc' = "done"
  /\ log' = Append(log, Finished(op, args, distance_result_init, loc))
  /\ UNCHANGED <<op, args, loc, caller>>

DistanceUpdate ==
  /\ pc = "ssigma"
  /\ ~distance_degenerate(loc)
  /\ loc' = distance_update(args, loc)
  /\ pc' = "loop"
  /\ UNCHANGED <<op, args, ret, log, caller>>

Returned(r) ==
  /\ ret' = r
  /\ log' = Append(log, Finished(op, args, r, loc))

Return ==
  /\ pc = "loop"
  /\ ~SolverCond(op, loc)
  /\ Returned(SolverReturn(op, args, loc))
  /\ pc' = "done"
  /\ UNCHANGED <<op, args, loc, caller>>

\* A test feeds the result to the opposite function with the same
\* ellipsoid: geodesic after geocentric, destination after distance.
Chain ==
  /\ pc = "done"
  /\ caller.fn = "test"
  /\ Len(log) = 1
  /\ op \in {"geocentric", "distance"}
  /\ op' = IF op = "geocentric" THEN "geodesic" ELSE "destination"
  /\ args' = IF op = "geocentric" THEN [ellps |-> args.ellps, xyz |-> ret]
             ELSE [ellps |-> args.ellps, start |-> args.start, dbb |-> ret]
  /\ pc' = "call"
  /\ loc' = Unset
  /\ ret' = Unset
  /\ UNCHANGED <<log, caller>>

(***************************************************************************)
(* geoid.c: npoints.  caller = [fn, pc, ellps, lla0, lla1, n] and the      *)
(* locals dbb, lla, llb, step, i; result is the buffer as a function of    *)
(* the indices written so far, writes[k] the number of writes of index k.  *)
(***************************************************************************)
npoints_frame(ellps, lla0, lla1, n) ==
  [fn |-> "npoints", pc |-> "start", ellps |-> ellps, lla0 |-> lla0, lla1 |-> lla1,
   n |-> n, dbb |-> Unset, lla |-> Unset, llb |-> Unset, step |-> Unset, i |-> Unset,
   buffer |-> Unset, result |-> << >>, writes |-> << >>]

\* a block of size elements of Vincenty_dest, or the null pointer
Block(size) == [null |-> FALSE, size |-> size]
NullPointer == [null |-> TRUE, size |-> 0]

\* line 228: malloc((n+2)*sizeof(Vincenty_dest)), count = n+2.  A negative
\* count converted to size_t is more than the address space holds, and the
\* allocation fails; for a size of 0 malloc returns the null pointer or a
\* block nothing can be stored in.  The result is not tested.
malloc(count) ==
  IF count < 0 THEN {NullPointer}
  ELSE IF count = 0 THEN {NullPointer, Block(0)}
  ELSE {Block(count)}

\* result[k] lies in the block
InBuffer(b, k) == ~b.null /\ k \in 0..(b.size - 1)

\* a double divided by an int: by 0 it is an infinity, or NaN for 0/0
Infinity(neg) == [inf |-> TRUE, neg |-> neg]

DivInt(x, k) ==
  IF k = 0 THEN (IF x = Zero THEN NaN ELSE Infinity(x.neg))
  ELSE IF k < 0 THEN Neg(DivI(x, -k))
  ELSE DivI(x, k)

\* result[k] = v
npoints_write(c, k, v) ==
  [c EXCEPT !.result = (k :> v) @@ c.result,
            !.writes = (k :> (IF k \in DOMAIN c.writes THEN c.writes[k] + 1 ELSE 1))
                       @@ c.writes]

\* line 229, the return of distance, and line 230
npoints_230(c, r) == [c EXCEPT !.dbb = r, !.step = DivInt(r.distance, c.n + 1)]

\* lines 232-234 with the final bearing
npoints_232_final(c) ==
  [c EXCEPT !.llb = Vincenty_dest(c.lla0.longitude, c.lla0.latitude, c.dbb.final_bearing)]

\* lines 232-234
npoints_232(c) ==
  [c EXCEPT !.llb = Vincenty_dest(c.lla0.longitude, c.lla0.latitude, c.dbb.initial_bearing)]

npoints_236(c) == npoints_write(c, 0, c.llb)

\* line 237 and the start of the for statement
npoints_237(c) == [c EXCEPT !.dbb.distance = c.step, !.i = 1]

\* the for statement stopping one element early
npoints_238_short(c) == c.i < c.n + 1

\* the condition of the for statement
npoints_238(c) == c.i < c.n + 2

\* lines 239-240 without line 241: the bearing is never carried over
npoints_239_unchained(c) ==
  [c EXCEPT !.lla = Geodesic(c.llb.longitude, c.llb.latitude, Unset)]

\* lines 239-241; the altitude of lla is never assigned
npoints_239(c) ==
  [c EXCEPT !.lla = Geodesic(c.llb.longitude, c.llb.latitude, Unset),
            !.dbb.initial_bearing = c.llb.destination_bearing]

\* line 242, the return of destination
npoints_242(c, r) == [c EXCEPT !.llb = r]

\* line 243 and the step of the for statement
npoints_243(c) == [npoints_write(c, c.i, c.llb) EXCEPT !.i = c.i + 1]

Call(o, a) ==
  /\ op' = o
  /\ args' = a
  /\ pc' = "call"
  /\ loc' = Unset
  /\ ret' = Unset

NpointsCallDistance ==
  /\ caller.fn = "npoints"
  /\ caller.pc = "start"
  /\ Call("distance", [ellps |-> caller.ellps, start |-> caller.lla0, stop |-> caller.lla1])
  /\ \E b \in malloc(caller.n + 2) :
       caller' = [caller EXCEPT !.pc = "distance", !.buffer = b]
  /\ UNCHANGED log

\* the store of line 236 through the null pointer ends the process; past
\* the end of a block of size 0 it may end it too
NpointsFault ==
  /\ caller.fn = "npoints"
  /\ caller.pc = "distance"
  /\ pc = "done"
  /\ ~InBuffer(caller.buffer, 0)
  /\ caller' = [caller EXCEPT !.pc = "fault"]
  /\ pc' = "idle"
  /\ UNCHANGED <<op, args, loc, ret, log>>

\* lines 230-237; a store past the end of a block goes to the memory behind it
NpointsFirst ==
  /\ caller.fn = "npoints"
  /\ caller.pc = "distance"
  /\ pc = "done"
  /\ ~caller.buffer.null
  /\ caller' = [npoints_237(npoints_236(npoints_232(npoints_230(caller, ret))))
                  EXCEPT !.pc = "for"]
  /\ pc' = "idle"
  /\ UNCHANGED <<op, args, loc, ret, log>>

NpointsCallDestination ==
  /\ caller.fn = "npoints"
  /\ caller.pc = "for"
  /\ npoints_238(caller)
  /\ caller' = [npoints_239(caller) EXCEPT !.pc = "destination"]
  /\ Call("destination", [ellps |-> caller.ellps, start |-> caller'.lla, dbb |-> caller'.dbb])
  /\ UNCHANGED log

NpointsStore ==
  /\ caller.fn = "npoints"
  /\ caller.pc = "destination"
  /\ pc = "done"
  /\ caller' = [npoints_243(npoints_242(caller, ret)) EXCEPT !.pc = "for"]
  /\ pc' = "idle"
  /\ UNCHANGED <<op, args, loc, ret, log>>

NpointsReturn ==
  /\ caller.fn = "npoints"
  /\ caller.pc = "for"
  /\ ~npoints_238(caller)
  /\ caller' = [caller EXCEPT !.pc = "done"]
  /\ UNCHANGED <<op, args, pc, loc, ret, log>>

(***************************************************************************)
(* A round trip through a projection: caller = [fn, pc, proj, crs, lla]    *)
(* and the locals xya (the forward result), result (coef's outputs in      *)
(* lcc_inverse) and out (the inverse result).                              *)
(***************************************************************************)
Projections == {"merc", "tmerc", "lcc", "miller", "eqc"}

\* the projections whose inverse calls a latitude solver
Iterative == {"merc", "tmerc", "lcc"}

\* the projections whose inverse is a closed formula
ClosedForm == {"miller", "eqc"}

roundtrip_frame(proj, crs, lla) ==
  [fn |-> "roundtrip", pc |-> "start", proj |-> proj, crs |-> crs, lla |-> lla,
   xya |-> Unset, result |-> Unset, out |-> Unset]

\* the values coef can hand to the forward or inverse function of proj
CoefOf(proj, crs) == IF proj = "lcc" THEN coef(crs) ELSE {Unset}

Forward(proj, crs, lla, result) ==
  CASE proj = "merc"   -> merc_forward(crs, lla)
    [] proj = "tmerc"  -> tmerc_forward(crs, lla)
    [] proj = "lcc"    -> lcc_forward(crs, lla, result)
    [] proj = "miller" -> miller_forward(crs, lla)
    [] proj = "eqc"    -> eqc_forward(crs, lla)
    [] proj = "omerc"  -> omerc_forward(crs, lla)

InverseSolver(proj) == IF proj = "tmerc" THEN "footpoint_latitude" ELSE "geodesic_latitude"

InverseCall(proj, crs, xya, result) ==
  CASE proj = "merc"  -> merc_inverse_call(crs, xya)
    [] proj = "tmerc" -> tmerc_inverse_call(crs, xya)
    [] proj = "lcc"   -> lcc_inverse_call(crs, xya, result)

InverseReturn(proj, crs, xya, result, r) ==
  CASE proj = "merc"  -> merc_inverse_return(crs, xya, r)
    [] proj = "tmerc" -> tmerc_inverse_return(crs, xya, r)
    [] proj = "lcc"   -> lcc_inverse_return(crs, xya, result, r)

InverseClosed(proj, crs, xya) ==
  CASE proj = "miller" -> miller_inverse(crs, xya)
    [] proj = "eqc"    -> eqc_inverse(crs, xya)

ProjForward ==
  /\ caller.fn = "roundtrip"
  /\ caller.pc = "start"
  /\ \E result \in CoefOf(caller.proj, caller.crs) :
       caller' = [caller EXCEPT !.xya = Forward(caller.proj, caller.crs, caller.lla, result),
                                !.pc = "forward"]
  /\ UNCHANGED <<op, args, pc, loc, ret, log>>

ProjInverseCall ==
  /\ caller.fn = "roundtrip"
  /\ caller.pc = "forward"
  /\ caller.proj \in Iterative
  /\ \E result \in CoefOf(caller.proj, caller.crs) :
       /\ caller' = [caller EXCEPT !.result = result, !.pc = "inverse"]
       /\ Call(InverseSolver(caller.proj),
               InverseCall(caller.proj, caller.crs, caller.xya, result))
  /\ UNCHANGED log

ProjInverseReturn ==
  /\ caller.fn = "roundtrip"
  /\ caller.pc = "inverse"
  /\ pc = "done"
  /\ caller' = [caller EXCEPT
                  !.out = InverseReturn(caller.proj, caller.crs, caller.xya, caller.result, ret),
                  !.pc = "done"]
  /\ pc' = "idle"
  /\ UNCHANGED <<op, args, loc, ret, log>>

ProjInverseClosed ==
  /\ caller.fn = "roundtrip"
  /\ caller.pc = "forward"
  /\ caller.proj \in ClosedForm
  /\ caller' = [caller EXCEPT !.out = InverseClosed(caller.proj, caller.crs, caller.xya),
                              !.pc = "done"]
  /\ UNCHANGED <<op, args, pc, loc, ret, log>>


\* omerc_inverse has no solver call and no formula: it returns its local lla
OmercInverse ==
  /\ caller.fn = "roundtrip"
  /\ caller.pc = "forward"
  /\ caller.proj = "omerc"
  /\ \E lla \in omerc_inverse(caller.crs, caller.xya) :
       caller' = [caller EXCEPT !.out = lla, !.pc = "done"]
  /\ UNCHANGED <<op, args, pc, loc, ret, log>>

(***************************************************************************)
(* The inputs.                                                             *)
(***************************************************************************)
Deg(d) == Mul(d, DEGREE2RAD)
LonLat(lon, lat) == Geodesic(Deg(lon), Deg(lat), Zero)

WGS84 == Ellipsoid(R(6378137, 0, 0, 0, 0), Div(One, R(298, 2572, 2356, 3000, 0)))
\* strongly flattened ellipsoids
Flat5 == Ellipsoid(R(6378137, 0, 0, 0, 0), R(0, 5000, 0, 0, 0))
Flat9 == Ellipsoid(R(6378137, 0, 0, 0, 0), R(0, 9000, 0, 0, 0))

London == LonLat(Neg(R(0, 1270, 500, 0, 0)), R(51, 5186, 200, 0, 0))
Dublin == LonLat(Neg(R(6, 2594, 3700, 0, 0)), R(53, 3507, 6500, 0, 0))
Sydney == LonLat(R(151, 2000, 0, 0, 0), Neg(R(33, 8700, 0, 0, 0)))
Origin == LonLat(Zero, Zero)
East10 == LonLat(I(10), Zero)
\* 10 degrees east and 1e-6 rad north of Origin
EastTilt == Geodesic(Deg(I(10)), R(0, 0, 100, 0, 0), Zero)
Fiji   == LonLat(I(170), I(10))
Samoa  == LonLat(I(-170), I(20))
Antipode == LonLat(R(179, 7000, 0, 0, 0), R(0, 2000, 0, 0, 0))
High   == Geodesic(Deg(I(40)), Deg(I(30)), I(100000))
Low    == Geodesic(Deg(I(-120)), Deg(I(-45)), I(-100))

DistanceCalls ==
  {[op |-> "distance", args |-> [ellps |-> c[1], start |-> c[2], stop |-> c[3]]] :
     c \in {<<WGS84, London, Dublin>>, <<WGS84, Dublin, London>>,
            <<WGS84, London, London>>, <<WGS84, Sydney, Sydney>>,
            <<Flat5, Origin, Origin>>, <<Flat5, Samoa, Samoa>>,
            <<WGS84, Origin, East10>>, <<WGS84, Fiji, Samoa>>,
            <<WGS84, Origin, Antipode>>, <<WGS84, Origin, EastTilt>>}}

GeocentricCalls ==
  {[op |-> "geocentric", args |-> [ellps |-> c[1], lla |-> c[2]]] :
     c \in {<<WGS84, London>>, <<WGS84, High>>, <<WGS84, Low>>,
            <<Flat5, High>>, <<Flat5, Low>>, <<Flat9, High>>}}

LatitudeCalls ==
  {[op |-> "geodesic_latitude", args |-> [e |-> c[1].e, iso_phi |-> c[2]]] :
     c \in {<<WGS84, One>>, <<WGS84, I(-2)>>, <<Flat5, One>>}}
  \cup
  {[op |-> "footpoint_latitude", args |-> [a |-> c[1].a, e |-> c[1].e, distance |-> c[2]]] :
     c \in {<<WGS84, I(1000000)>>, <<WGS84, I(5000000)>>, <<Flat9, I(5000000)>>}}

\* destination called on its own: 100 km north-east of London, and east from
\* the equator by the length of the equator, 2 pi b
DestinationCalls ==
  {[op |-> "destination", args |-> [ellps |-> c[1], start |-> c[2], dbb |-> c[3]]] :
     c \in {<<WGS84, London, Vincenty_dist(I(100000), Deg(I(45)), Zero)>>,
            <<WGS84, Origin, Vincenty_dist(Mul(TWO_PI, WGS84.b), HALF_PI, Zero)>>}}

Calls == DistanceCalls \cup GeocentricCalls \cup LatitudeCalls \cup DestinationCalls

\* a test calls one function, and geodesic or destination on its result
Init ==
  /\ \E c \in Calls : op = c.op /\ args = c.args
  /\ pc = "call"
  /\ loc = Unset
  /\ ret = Unset
  /\ log = <<>>
  /\ caller = [fn |-> "test"]

Next ==
  \/ Enter
  \/ Iterate
  \/ DistanceSsigma
  \/ DistanceDegenerate
  \/ DistanceUpdate
  \/ Return
  \/ Chain

Spec == Init /\ [][Next]_vars

\* the largest n npoints is called with
MaxN == 2

NpointsCalls ==
  {npoints_frame(c[1], c[2], c[3], n) :
     c \in {<<WGS84, London, Dublin>>, <<WGS84, Fiji, Samoa>>, <<Flat5, Sydney, Sydney>>},
     n \in 0..MaxN}

InitNpoints ==
  /\ caller \in NpointsCalls
  /\ op = Unset
  /\ args = Unset
  /\ pc = "idle"
  /\ loc = Unset
  /\ ret = Unset
  /\ log = <<>>

NextNpoints ==
  \/ NpointsCallDistance
  \/ Enter
  \/ Iterate
  \/ DistanceSsigma
  \/ DistanceDegenerate
  \/ DistanceUpdate
  \/ Return
  \/ NpointsFirst
  \/ NpointsCallDestination
  \/ NpointsStore
  \/ NpointsReturn

SpecNpoints == InitNpoints /\ [][NextNpoints]_vars

\* the smallest n npoints is called with
MinN == -(MaxN + 1)

\* npoints with a negative, zero or positive number of points
AllocCalls ==
  {npoints_frame(c[1], c[2], c[3], n) :
     c \in {<<WGS84, London, Dublin>>, <<Flat5, Sydney, Sydney>>}, n \in MinN..1}

InitAlloc ==
  /\ caller \in AllocCalls
  /\ op = Unset
  /\ args = Unset
  /\ pc = "idle"
  /\ loc = Unset
  /\ ret = Unset
  /\ log = <<>>

NextAlloc ==
  \/ NpointsCallDistance
  \/ Enter
  \/ Iterate
  \/ DistanceSsigma
  \/ DistanceDegenerate
  \/ DistanceUpdate
  \/ Return
  \/ NpointsFault
  \/ NpointsFirst
  \/ NpointsCallDestination
  \/ NpointsStore
  \/ NpointsReturn

SpecAlloc == InitAlloc /\ [][NextAlloc]_vars


\* coordinate reference systems on WGS84
Plain(lambda0, phi0, phi1, phi2) == Crs(WGS84, lambda0, phi0, phi1, phi2, One, Zero, Zero)

MercEquator == Plain(Zero, Zero, Zero, Zero)
MercScaled  == Crs(WGS84, Deg(I(10)), Zero, Deg(I(40)), Zero, One, I(1000), I(2000))
TmercPlain  == Plain(Zero, Zero, Zero, Zero)
TmercUtm    == Crs(WGS84, Deg(I(3)), Zero, Zero, Zero, R(0, 9996, 0, 0, 0), I(500000), Zero)
LccSecant   == Crs(WGS84, Deg(I(3)), Deg(R(46, 5000, 0, 0, 0)), Deg(I(44)), Deg(I(49)),
                   One, I(700000), I(6600000))
LccTangent  == Crs(WGS84, Zero, Deg(R(46, 5000, 0, 0, 0)), Deg(R(46, 5000, 0, 0, 0)),
                   Deg(R(46, 5000, 0, 0, 0)), R(0, 9998, 7742, 0, 0), I(600000), I(200000))
LccEquator  == Plain(Zero, Zero, Zero, Zero)
MillerPlain == Plain(Deg(I(-20)), Zero, Zero, Zero)
EqcPlain    == Plain(Zero, Zero, Zero, Zero)
EqcScaled   == Crs(WGS84, Deg(I(5)), Deg(I(30)), Deg(I(60)), Zero, One, I(100), I(200))

\* oblique Mercator: the azimuth of the central line at the centre (lambda0, phi0)
Oblique(lambda0, phi0, azimut, k0, x0, y0) ==
  [Crs(WGS84, Deg(lambda0), Deg(phi0), Zero, Zero, k0, x0, y0) EXCEPT !.azimut = Deg(azimut)]

OmercBorneo == Oblique(I(115), I(4), R(53, 3158, 2047, 2000, 0), R(0, 9998, 4000, 0, 0), Zero, Zero)
OmercNorth  == Oblique(I(-20), I(-30), Zero, One, I(1000), I(2000))

\* offsets from the central meridian and latitudes, in degrees
GridPoints == {<<I(2), I(45)>>, <<I(45), I(60)>>, <<I(-100), I(-30)>>}

RoundTrips ==
  {roundtrip_frame(c[1], c[2], Geodesic(Add(c[2].lambda0, Deg(g[1])), Deg(g[2]), I(120))) :
     c \in {<<"merc", MercEquator>>, <<"merc", MercScaled>>,
            <<"tmerc", TmercPlain>>, <<"tmerc", TmercUtm>>,
            <<"lcc", LccSecant>>, <<"lcc", LccTangent>>, <<"lcc", LccEquator>>,
            <<"miller", MillerPlain>>, <<"eqc", EqcPlain>>, <<"eqc", EqcScaled>>},
     g \in GridPoints}
  \cup {roundtrip_frame("tmerc", TmercPlain, Geodesic(Zero, Zero, Zero))}
  \cup {roundtrip_frame("omerc", c[1], Geodesic(Add(c[1].lambda0, Deg(c[2])), Deg(c[3]), c[4])) :
          c \in {<<OmercBorneo, I(2), I(45), I(120)>>, <<OmercBorneo, I(45), I(60), I(-30)>>,
                 <<OmercNorth, I(-100), I(-30), I(8000)>>}}

InitProj ==
  /\ caller \in RoundTrips
  /\ op = Unset
  /\ args = Unset
  /\ pc = "idle"
  /\ loc = Unset
  /\ ret = Unset
  /\ log = <<>>

NextProj ==
  \/ ProjForward
  \/ ProjInverseCall
  \/ Enter
  \/ Iterate
  \/ Return
  \/ ProjInverseReturn
  \/ ProjInverseClosed
  \/ OmercInverse

SpecProj == InitProj /\ [][NextProj]_vars
(***************************************************************************)
(* Datum shifts.  A call of dat2dat has no loop: it returns in one step.   *)
(***************************************************************************)
Greenwich == Prime(8901, Zero)
Paris == Prime(8903, Deg(R(2, 3372, 2917, 0, 0)))

Clarke1880 == Ellipsoid(R(6378249, 2000, 0, 0, 0), Div(One, R(293, 4660, 2129, 3600, 0)))
Airy1830 == Ellipsoid(R(6377563, 3960, 0, 0, 0), Div(One, R(299, 3249, 6460, 0, 0)))

Wgs84Datum == Datum(WGS84, Greenwich, 6326, Zero, <<Zero, Zero, Zero>>, <<Zero, Zero, Zero>>)

NtfDatum ==
  Datum(Clarke1880, Paris, 6275, Zero, <<I(-168), I(-60), I(320)>>, <<Zero, Zero, Zero>>)

Osgb36Datum ==
  Datum(Airy1830, Greenwich, 6277, Neg(R(20, 4894, 0, 0, 0)),
        <<R(446, 4480, 0, 0, 0), Neg(R(125, 1570, 0, 0, 0)), R(542, 600, 0, 0, 0)>>,
        <<R(0, 1502, 0, 0, 0), R(0, 2470, 0, 0, 0), R(0, 8421, 0, 0, 0)>>)

\* the parameters of Osgb36Datum on another ellipsoid and prime meridian
Osgb36OnClarke == [Osgb36Datum EXCEPT !.ellipsoid = Clarke1880, !.prime = Paris, !.epsg = 0]

ScaledDatum ==
  Datum(WGS84, Greenwich, 1, I(1000), <<Zero, Zero, Zero>>, <<Zero, Zero, Zero>>)

TurnedDatum ==
  Datum(WGS84, Paris, 2, I(3), <<I(10), I(-20), I(30)>>, <<I(3600), I(-1800), I(900)>>)

Datums == {Wgs84Datum, NtfDatum, Osgb36Datum, Osgb36OnClarke, ScaledDatum, TurnedDatum}

GeocentricPoints ==
  {Geocentric(R(3980000, 1230, 0, 0, 0), Neg(R(100, 5000, 0, 0, 0)), I(4970000)),
   Geocentric(I(-4500000), R(2600000, 2500, 0, 0, 0), I(-3700000)),
   Geocentric(Zero, Zero, R(6356752, 3142, 0, 0, 0))}

DatumCalls ==
  {[op |-> "dat2dat", args |-> [src |-> c[1], dst |-> c[2], xyz |-> c[3]]] :
     c \in Datums \X Datums \X GeocentricPoints}

InitDatum ==
  /\ \E c \in DatumCalls : op = c.op /\ args = c.args
  /\ pc = "call"
  /\ loc = Unset
  /\ ret = Unset
  /\ log = <<>>
  /\ caller = [fn |-> "test"]

Dat2dat ==
  /\ pc = "call"
  /\ op = "dat2dat"
  /\ ret' = dat2dat(args.src, args.dst, args.xyz)
  /\ pc' = "done"
  /\ UNCHANGED <<op, args, loc, log, caller>>

NextDatum == Dat2dat

SpecDatum == InitDatum /\ [][NextDatum]_vars

(***************************************************************************)
(* Calls of dms and dmm: the locals are computed, then the carries made.   *)
(***************************************************************************)
\* 45.9999999999999929 and 359.9999999999999431 are the largest doubles below
\* 46 and below 360
AngleMagnitudes ==
  {Zero, R(60, 4228, 6847, 2222, 2222), R(10, 5000, 0, 0, 0), R(7, 2525, 0, 0, 0),
   R(12, 166, 6666, 6666, 6666), R(12, 9833, 3333, 3333, 3333),
   R(45, 9999, 9999, 9999, 9929), R(359, 9999, 9999, 9999, 9431),
   R(0, 0, 100, 0, 0), R(89, 9997, 2222, 2222, 0), I(360), I(400),
   R(720, 2500, 0, 0, 0), R(179, 166, 6666, 6400, 0)}

AngleValues == AngleMagnitudes \cup {Neg(v) : v \in AngleMagnitudes}

AngleCalls == {[op |-> o, args |-> [value |-> v]] : o \in {"dms", "dmm"}, v \in AngleValues}

InitAngle ==
  /\ \E c \in AngleCalls : op = c.op /\ args = c.args
  /\ pc = "call"
  /\ loc = Unset
  /\ ret = Unset
  /\ log = <<>>
  /\ caller = [fn |-> "test"]

DmsSplit ==
  /\ pc = "call"
  /\ op = "dms"
  /\ loc' = dms_split(args.value)
  /\ pc' = "carry"
  /\ UNCHANGED <<op, args, ret, log, caller>>

DmsCarry ==
  /\ pc = "carry"
  /\ op = "dms"
  /\ ret' = dms_carry(loc)
  /\ pc' = "done"
  /\ UNCHANGED <<op, args, loc, log, caller>>

DmmSplit ==
  /\ pc = "call"
  /\ op = "dmm"
  /\ loc' = dmm_split(args.value)
  /\ pc' = "carry"
  /\ UNCHANGED <<op, args, ret, log, caller>>

DmmCarry ==
  /\ pc = "carry"
  /\ op = "dmm"
  /\ ret' = dmm_carry(loc)
  /\ pc' = "done"
  /\ UNCHANGED <<op, args, loc, log, caller>>

NextAngle ==
  \/ DmsSplit
  \/ DmsCarry
  \/ DmmSplit
  \/ DmmCarry

SpecAngle == InitAngle /\ [][NextAngle]_vars


(***************************************************************************)
(* Calls of lagrange: pc is "outer" at the test of the outer for           *)
(* statement and "inner" at the test of the inner one.                     *)
(***************************************************************************)
\* the largest number of calibration points
MaxPoints == 3

\* pairwise distinct abscissae, and abscissae with a repetition
Abscissae == <<Zero, One, R(2, 5000, 0, 0, 0), I(-3), I(7)>>
Repeated  == <<Zero, One, Zero, I(-3), One>>

Ordinates ==
  {<<I(10), R(0, 3333, 3333, 3333, 3333), I(-4), R(7, 2500, 0, 0, 0), One>>,
   <<Zero, I(5), R(1, 4142, 1356, 2373, 950), I(-1), I(2)>>}

\* the first n elements of s as a C array
Table(s, n) == [k \in 0..(n - 1) |-> s[k + 1]]

\* where lagrange is evaluated: at the calibration abscissae and between them
Evaluated(nx) == {nx[k] : k \in DOMAIN nx} \cup {R(0, 5000, 0, 0, 0)}

LagrangeCalls ==
  {[op |-> "lagrange", args |-> [x |-> x, nx |-> Table(c[1], n), ny |-> Table(c[2], n), n |-> n]] :
     c \in {Abscissae, Repeated} \X Ordinates, n \in 1..MaxPoints, x \in Evaluated(Table(Abscissae, MaxPoints))}

InitLagrange ==
  /\ \E c \in LagrangeCalls : op = c.op /\ args = c.args
  /\ pc = "call"
  /\ loc = lagrange_locals
  /\ ret = Unset
  /\ log = <<>>
  /\ caller = [fn |-> "test"]

LagrangeEnter ==
  /\ pc = "call"
  /\ op = "lagrange"
  /\ loc' = lagrange_254(loc)
  /\ pc' = "outer"
  /\ UNCHANGED <<op, args, ret, log, caller>>

LagrangeTerm ==
  /\ pc = "outer"
  /\ op = "lagrange"
  /\ lagrange_255(args, loc)
  /\ loc' = lagrange_256(loc)
  /\ pc' = "inner"
  /\ UNCHANGED <<op, args, ret, log, caller>>

LagrangeFactor ==
  /\ pc = "inner"
  /\ op = "lagrange"
  /\ lagrange_257(args, loc)
  /\ loc' = lagrange_inner(args, loc)
  /\ UNCHANGED <<op, args, pc, ret, log, caller>>

LagrangeAdd ==
  /\ pc = "inner"
  /\ op = "lagrange"
  /\ ~lagrange_257(args, loc)
  /\ loc' = lagrange_264(args, loc)
  /\ pc' = "outer"
  /\ UNCHANGED <<op, args, ret, log, caller>>

LagrangeReturn ==
  /\ pc = "outer"
  /\ op = "lagrange"
  /\ ~lagrange_255(args, loc)
  /\ ret' = loc.result
  /\ pc' = "done"
  /\ UNCHANGED <<op, args, loc, log, caller>>

NextLagrange ==
  \/ LagrangeEnter
  \/ LagrangeTerm
  \/ LagrangeFactor
  \/ LagrangeAdd
  \/ LagrangeReturn

SpecLagrange == InitLagrange /\ [][NextLagrange]_vars

(***************************************************************************)
(* Calls of omerc_forward, one statement at a time: pc is the line of the  *)
(* statement to execute next.                                              *)
(***************************************************************************)
\* at an azimuth of 90 degrees line 36 takes asin at the end of its domain,
\* where the rounding of G * tan(g0) decides between pi/2 and NaN; for a
\* centre at 50 degrees north it stays inside
OmercRight == Oblique(I(10), I(50), I(90), One, Zero, Zero)
OmercBack  == Oblique(I(-70), I(20), I(180), R(0, 9996, 0, 0, 0), I(500000), Zero)
OmercWest  == Oblique(I(30), I(-15), I(120), One, Zero, I(10000))

\* the centre line's CRS, the offset from lambda0 and the latitude in
\* degrees, the altitude
OmercCalls ==
  {[op |-> "omerc_forward",
    args |-> [crs |-> c[1],
              lla |-> Geodesic(Add(c[1].lambda0, Deg(c[2])), Deg(c[3]), c[4])]] :
     c \in {<<OmercBorneo, I(2), I(45), I(120)>>, <<OmercBorneo, I(45), I(60), I(-30)>>,
            <<OmercBorneo, I(-1), Zero, Zero>>,
            <<OmercNorth, I(-100), I(-30), I(8000)>>, <<OmercNorth, I(5), I(-35), Zero>>,
            <<OmercRight, I(3), I(52), I(10)>>, <<OmercRight, I(-8), I(45), Zero>>,
            <<OmercBack, I(1), I(25), I(300)>>, <<OmercBack, I(-4), I(10), Zero>>,
            <<OmercWest, I(2), I(-10), I(50)>>}}

InitOmerc ==
  /\ \E c \in OmercCalls : op = c.op /\ args = c.args
  /\ pc = "49"
  /\ loc = omerc_forward_locals
  /\ ret = Unset
  /\ log = <<>>
  /\ caller = [fn |-> "test"]

\* the statement at line from gives the locals l; line to is next
OmercLine(from, to, l) ==
  /\ pc = from
  /\ op = "omerc_forward"
  /\ loc' = l
  /\ pc' = to
  /\ UNCHANGED <<op, args, ret, log, caller>>

Omerc49 == OmercLine("49", "50", omerc_forward_49(args.crs, loc))

Omerc50 == OmercLine("50", "52", omerc_forward_50(args.lla, loc))

Omerc52 == OmercLine("52", "54", omerc_forward_52(args.crs.datum.ellipsoid.e, args.lla, loc))

Omerc54 == OmercLine("54", "56", omerc_forward_54(loc))

Omerc56 == OmercLine("56", "58", omerc_forward_56(loc))

Omerc58 == OmercLine("58", "60", omerc_forward_58(loc))

Omerc60 == OmercLine("60", "62", omerc_forward_60(args.lla, loc))

Omerc62 == OmercLine("62", "64", omerc_forward_62(loc))

Omerc64 == OmercLine("64", "66", omerc_forward_64(loc))

Omerc66 == OmercLine("66", "67", omerc_forward_66(args.lla, loc))

Omerc67 == OmercLine("67", "72", omerc_forward_67(loc))

Omerc72 ==
  /\ pc = "72"
  /\ op = "omerc_forward"
  /\ ret' = omerc_forward_72(args.crs, args.lla, loc)
  /\ pc' = "done"
  /\ UNCHANGED <<op, args, loc, log, caller>>

NextOmerc ==
  \/ Omerc49
  \/ Omerc50
  \/ Omerc52
  \/ Omerc54
  \/ Omerc56
  \/ Omerc58
  \/ Omerc60
  \/ Omerc62
  \/ Omerc64
  \/ Omerc66
  \/ Omerc67
  \/ Omerc72

SpecOmerc == InitOmerc /\ [][NextOmerc]_vars
(***************************************************************************)
(* Two concurrent calls.  No function of the library declares a static     *)
(* local or writes a file-scope variable (EPS, MAX_ITER and F3..F8 are     *)
(* only read), so a thread's state is its own stack: the variables hold    *)
(* the frames of the running thread and caller.parked those of the         *)
(* suspended one.  A switch may happen between any two steps.  The two     *)
(* threads run different programs.                                         *)
(***************************************************************************)
Extend(r, k, v) == [j \in DOMAIN r \cup {k} |-> IF j = k THEN v ELSE r[j]]

Without(r, k) == [j \in DOMAIN r \ {k} |-> r[j]]

\* the frames of a thread that is about to run program number k
SolverThread(k, c) ==
  [op |-> c.op, args |-> c.args, pc |-> "call", loc |-> Unset, ret |-> Unset,
   log |-> <<>>, caller |-> [fn |-> "thread", program |-> k]]

NpointsThread(k, c) ==
  [op |-> Unset, args |-> Unset, pc |-> "idle", loc |-> Unset, ret |-> Unset,
   log |-> <<>>, caller |-> Extend(c, "program", k)]

ThreadPrograms ==
  <<SolverThread(1, [op |-> "geodesic_latitude", args |-> [e |-> WGS84.e, iso_phi |-> One]]),
    SolverThread(2, [op |-> "geodesic_latitude", args |-> [e |-> Flat5.e, iso_phi |-> I(-2)]]),
    SolverThread(3, [op |-> "geodesic",
                     args |-> [ellps |-> WGS84,
                               xyz |-> Geocentric(I(3980000), I(-100000), I(4970000))]]),
    NpointsThread(4, npoints_frame(WGS84, London, Dublin, 0)),
    NpointsThread(5, npoints_frame(WGS84, Dublin, London, 0)),
    SolverThread(6, [op |-> "distance",
                     args |-> [ellps |-> WGS84, start |-> London, stop |-> London]])>>

\* the frames of the running thread
Running ==
  [op |-> op, args |-> args, pc |-> pc, loc |-> loc, ret |-> ret, log |-> log,
   caller |-> Without(caller, "parked")]

\* the locals of a function as statics: a resumed call finds the values the
\* other call of the same function left in them
ResumeStatic(saved, running) ==
  IF saved.op = running.op /\ saved.pc = "loop" /\ running.pc = "loop"
  THEN [saved EXCEPT !.loc = running.loc]
  ELSE saved

\* the frames a resumed thread finds: those it was suspended with, whatever
\* the other thread did meanwhile
Resume(saved, running) == saved

SwitchTo(next, saved) ==
  /\ op' = next.op
  /\ args' = next.args
  /\ pc' = next.pc
  /\ loc' = next.loc
  /\ ret' = next.ret
  /\ log' = next.log
  /\ caller' = Extend(next.caller, "parked", saved)

Switch == SwitchTo(Resume(caller.parked, Running), Running)

InitThreads ==
  \E k1, k2 \in DOMAIN ThreadPrograms :
    /\ k1 # k2
    /\ op = ThreadPrograms[k1].op
    /\ args = ThreadPrograms[k1].args
    /\ pc = ThreadPrograms[k1].pc
    /\ loc = Unset
    /\ ret = Unset
    /\ log = <<>>
    /\ caller = Extend(ThreadPrograms[k1].caller, "parked", ThreadPrograms[k2])

NextThreads ==
  \/ Switch
  \/ Enter
  \/ Iterate
  \/ DistanceSsigma
  \/ DistanceDegenerate
  \/ DistanceUpdate
  \/ Return
  \/ NpointsCallDistance
  \/ NpointsFirst
  \/ NpointsCallDestination
  \/ NpointsStore
  \/ NpointsReturn

SpecThreads == InitThreads /\ [][NextThreads]_vars

(***************************************************************************)
(* The properties.                                                         *)
(***************************************************************************)
IsNumber(x) == DOMAIN x = {"neg", "m"} /\ x.neg \in BOOLEAN /\ x.m \in Seq(0..(Base - 1))

\* |x - y| <= tol
Near(x, y, tol) == Le(Fabs(Sub(x, y)), tol)

\* the last finished call
Last == log[Len(log)]

\* C1: no solver makes more than MAX_ITER passes of its loop: the pass
\* counter of a running call is at most MAX_ITER, a call that has made
\* MAX_ITER passes leaves the loop whether or not its value has converged,
\* and every finished call has made at most MAX_ITER passes.
C1_AtMostMaxIter ==
  /\ pc = "loop" => loc.i \in 0..MAX_ITER
  /\ pc = "ssigma" => loc.i \in 0..(MAX_ITER - 1)
  /\ (pc = "loop" /\ loc.i = MAX_ITER) => ~SolverCond(op, loc)
  /\ \A k \in 1..Len(log) : log[k].i \in 0..MAX_ITER

\* geodesic has returned after MAX_ITER passes without converging
C1_Witness ==
  /\ pc = "done"
  /\ op = "geodesic"
  /\ loc.i = MAX_ITER
  /\ ~Near(loc.phi_i, loc.phi_ip1, EPS)

\* the shape of an ordinary result of each function
ResultShape(o, r) ==
  CASE o \in {"geodesic_latitude", "footpoint_latitude"} -> IsNumber(r)
    [] o = "geodesic" ->
         /\ DOMAIN r = {"longitude", "latitude", "altitude"}
         /\ \A f \in DOMAIN r : IsNumber(r[f])
    [] o = "geocentric" ->
         /\ DOMAIN r = {"x", "y", "z"}
         /\ \A f \in DOMAIN r : IsNumber(r[f])
    [] o = "distance" ->
         /\ DOMAIN r = {"distance", "initial_bearing", "final_bearing"}
         /\ \A f \in DOMAIN r : IsNumber(r[f])
    [] o = "destination" ->
         /\ DOMAIN r = {"longitude", "latitude", "destination_bearing"}
         /\ \A f \in DOMAIN r : IsNumber(r[f])

\* the result is made of the values of the last pass
LastEstimate(o, l, r) ==
  CASE o \in {"geodesic_latitude", "footpoint_latitude"} -> r = l.phi_ip1
    [] o = "geodesic"    -> r.latitude = l.phi_ip1
    [] o = "distance"    ->
         r.initial_bearing =
           Atan2(Mul(l.cU2, l.sx), Sub(Mul(l.cU1, l.sU2), Mul(Mul(l.sU1, l.cU2), l.cx)))
    [] o = "destination" -> TRUE

C3_SamePointZero ==
  /\ \A k \in 1..Len(log) :
       (log[k].op = "distance" /\ log[k].args.start = log[k].args.stop)
         => /\ log[k].ret = Vincenty_dist(Zero, Zero, Zero)
            /\ log[k].i = 0
  /\ (op = "distance" /\ pc \in {"loop", "ssigma", "done"} /\ args.start = args.stop)
       => /\ loc.i = 0
          /\ loc.x = loc.L
          /\ pc = "ssigma" => Lt(loc.ssigma, EPS)

\* distance of a point off the equator and itself has returned
C3_Witness ==
  /\ pc = "done"
  /\ op = "distance"
  /\ args.start = args.stop
  /\ args.start.latitude # Zero
  /\ loc.ssigma = Zero

\* 1e-9 rad and 1e-2 m
AngleTol == R(0, 0, 0, 1000, 0)
AltitudeTol == R(0, 100, 0, 0, 0)

\* the point q is the point p up to the tolerances
SamePoint(p, q) ==
  /\ Near(p.longitude, q.longitude, AngleTol)
  /\ Near(p.latitude, q.latitude, AngleTol)
  /\ Near(p.altitude, q.altitude, AltitudeTol)

\* a test has run geocentric and then geodesic on its result
GeocentricRoundTrip ==
  /\ pc = "done"
  /\ Len(log) = 2
  /\ log[1].op = "geocentric"
  /\ log[2].op = "geodesic"

\* C5 as stated: for every ellipsoid, geodesic(e, geocentric(e, p)) is p up
\* to 1e-9 rad and 1e-2 m.
C5_Original == GeocentricRoundTrip => SamePoint(log[1].args.lla, log[2].ret)

\* C5 amended: for every ellipsoid with 0 < f <= 1/2 and every point p of
\* the grid with an altitude between -100 m and 100 km, geodesic(e,
\* geocentric(e, p)) is p up to 1e-9 rad and 1e-2 m.
C5_Amended ==
  (/\ GeocentricRoundTrip
   /\ Le(log[1].args.ellps.f, R(0, 5000, 0, 0, 0))
   /\ Ge(log[1].args.lla.altitude, I(-100))
   /\ Le(log[1].args.lla.altitude, I(100000)))
    => SamePoint(log[1].args.lla, log[2].ret)

\* the round trip on the ellipsoid with f = 1/2 took several passes
C5_Witness ==
  /\ GeocentricRoundTrip
  /\ log[1].args.ellps.f = R(0, 5000, 0, 0, 0)
  /\ log[2].i > 1

\* 1e-6 rad
RoundTripTol == R(0, 0, 100, 0, 0)

\* a test has run distance between two distinct points and then destination
\* from the start with the distance and bearings returned
VincentyRoundTrip ==
  /\ pc = "done"
  /\ Len(log) = 2
  /\ log[1].op = "distance"
  /\ log[2].op = "destination"
  /\ log[1].args.start # log[1].args.stop

\* C6 as stated: destination from p0 with the distance and the initial
\* bearing of distance(e, p0, p1) has the longitude and the latitude of p1,
\* up to 1e-6 rad.
C6_Original ==
  VincentyRoundTrip
    => /\ Near(log[2].ret.longitude, log[1].args.stop.longitude, RoundTripTol)
       /\ Near(log[2].ret.latitude, log[1].args.stop.latitude, RoundTripTol)

\* the finished call distance(e, start, stop), if any
DistanceOf(e, start, stop) ==
  {k \in 1..Len(log) :
     log[k].op = "distance" /\ log[k].args = [ellps |-> e, start |-> start, stop |-> stop]}

\* 464025.22 m, 113.6 degrees and 118.5 degrees, within 0.1 m and 0.1 degree
LondonDublin(r) ==
  /\ Near(r.distance, R(464025, 2200, 0, 0, 0), R(0, 1000, 0, 0, 0))
  /\ Near(r.initial_bearing, Deg(R(113, 6000, 0, 0, 0)), Deg(R(0, 1000, 0, 0, 0)))
  /\ Near(r.final_bearing, Deg(R(118, 5000, 0, 0, 0)), Deg(R(0, 1000, 0, 0, 0)))

\* C7 as stated: on WGS84, distance from London to Dublin returns about
\* 464025.22 m, 113.6 degrees and 118.5 degrees.
C7_Original == \A k \in DistanceOf(WGS84, London, Dublin) : LondonDublin(log[k].ret)

\* C7 amended: on WGS84, distance from Dublin to London returns about
\* 464025.22 m, an initial bearing of about 113.6 degrees and a final
\* bearing of about 118.5 degrees.
C7_Amended == \A k \in DistanceOf(WGS84, Dublin, London) : LondonDublin(log[k].ret)

\* distance from Dublin to London has returned
C7_Witness == pc = "done" /\ op = "distance" /\ DistanceOf(WGS84, Dublin, London) # {}

\* C8: npoints writes the indices 0..n+1 of its buffer and no other, each
\* of them once: no index is ever written twice or lies outside 0..n+1, and
\* when npoints returns every index of 0..n+1 has been written.
C8_EachIndexOnce ==
  caller.fn = "npoints"
    => /\ DOMAIN caller.writes \subseteq 0..(caller.n + 1)
       /\ \A k \in DOMAIN caller.writes : caller.writes[k] = 1
       /\ DOMAIN caller.result = DOMAIN caller.writes
       /\ caller.pc = "done" => DOMAIN caller.writes = 0..(caller.n + 1)

\* npoints has returned for some n >= 1
C8_Witness == caller.fn = "npoints" /\ caller.pc = "done" /\ caller.n >= 1

\* C9: element 0 of the buffer has the longitude and the latitude of p0 and
\* the initial bearing that distance(e, p0, p1), the first call, returned.
C9_FirstIsStart ==
  (caller.fn = "npoints" /\ 0 \in DOMAIN caller.result)
    => /\ caller.result[0].longitude = caller.lla0.longitude
       /\ caller.result[0].latitude = caller.lla0.latitude
       /\ log[1].op = "distance"
       /\ log[1].args.start = caller.lla0
       /\ log[1].args.stop = caller.lla1
       /\ caller.result[0].destination_bearing = log[1].ret.initial_bearing

\* npoints has returned for two distinct points, whose bearings differ
C9_Witness ==
  /\ caller.fn = "npoints"
  /\ caller.pc = "done"
  /\ caller.lla0 # caller.lla1
  /\ log[1].ret.initial_bearing # log[1].ret.final_bearing

\* C10: the calls npoints makes are distance once, first, and then
\* destination n+1 times; the k-th destination call starts at element k-1
\* with its bearing and the step distance/(n+1), and returns element k.
C10_CallSequence ==
  caller.fn = "npoints"
    => /\ Len(log) <= caller.n + 2
       /\ caller.pc = "done" => Len(log) = caller.n + 2
       /\ \A j \in 1..Len(log) : log[j].op = IF j = 1 THEN "distance" ELSE "destination"
       /\ \A k \in 1..(Len(log) - 1) :
            /\ log[k + 1].args.start.longitude = caller.result[k - 1].longitude
            /\ log[k + 1].args.start.latitude = caller.result[k - 1].latitude
            /\ log[k + 1].args.dbb.initial_bearing = caller.result[k - 1].destination_bearing
            /\ log[k + 1].args.dbb.distance = DivI(log[1].ret.distance, caller.n + 1)
            /\ k \in DOMAIN caller.result => caller.result[k] = log[k + 1].ret

\* npoints has returned after more than one destination call between two
\* distinct points
C10_Witness ==
  /\ caller.fn = "npoints"
  /\ caller.pc = "done"
  /\ caller.n = 2
  /\ Len(log) = 4
  /\ log[1].ret.distance # Zero

\* a round trip through a projection has returned
RoundTripDone == caller.fn = "roundtrip" /\ caller.pc = "done"

\* C4 as stated: for each of the five projections, every CRS and every
\* point of the grid, inverse(crs, forward(crs, p)) has the longitude and
\* the latitude of p to within 1e-6 rad.
C4_Original ==
  (RoundTripDone /\ caller.proj \in Projections)
    => /\ Near(caller.out.longitude, caller.lla.longitude, RoundTripTol)
       /\ Near(caller.out.latitude, caller.lla.latitude, RoundTripTol)

(***************************************************************************)
(* Datum shifts.                                                           *)
(***************************************************************************)
HelmertParameters == {"ds", "dx", "dy", "dz", "rx", "ry", "rz"}

SameParameters(d1, d2) == \A k \in HelmertParameters : d1[k] = d2[k]

\* C11: dat2dat from a datum to itself returns the point it was given,
\* exactly, x, y and z unchanged.
C11_SelfTransform ==
  (pc = "done" /\ op = "dat2dat" /\ args.src = args.dst) => ret = args.xyz

\* a self-transform of a point off the axes by a datum with translations,
\* rotations and a scale has returned
C11_Witness ==
  /\ pc = "done" /\ op = "dat2dat"
  /\ args.src = Osgb36Datum /\ args.dst = Osgb36Datum
  /\ args.xyz.x # Zero /\ args.xyz.y # Zero
  /\ ret = args.xyz

\* the product of the rows of a 3x3 matrix with a vector
Dot(u, v) == Add(Add(Mul(u[1], v[1]), Mul(u[2], v[2])), Mul(u[3], v[3]))

MatVec(m, v) == [k \in 1..3 |-> Dot(m[k], v)]

\* T + (1 + s) * R * pt from the seven parameter differences: d[k] is src[k] - dst[k]
HelmertOf(T, s, r, pt) ==
  [k \in 1..3 |->
     Add(T[k], Mul(Add(One, s),
                   MatVec(<< <<One, Neg(r[3]), r[2]>>,
                             <<r[3], One, Neg(r[1])>>,
                             <<Neg(r[2]), r[1], One>> >>, pt)[k]))]

Helmert(d, pt) ==
  HelmertOf(<<d.dx, d.dy, d.dz>>, Div(d.ds, I(1000000)),
            <<Mul(d.rx, ARCSEC2RAD), Mul(d.ry, ARCSEC2RAD), Mul(d.rz, ARCSEC2RAD)>>,
            <<pt.x, pt.y, pt.z>>)

ParameterDifference(src, dst) == [k \in HelmertParameters |-> Sub(src[k], dst[k])]

\* the terms of a row are summed in another order than the code's: the sums
\* agree to the last digits
HelmertTol == R(0, 0, 0, 1, 0)

NearVector(r, h) ==
  /\ Near(r.x, h[1], HelmertTol)
  /\ Near(r.y, h[2], HelmertTol)
  /\ Near(r.z, h[3], HelmertTol)

\* C12: dat2dat returns T + (1+s) R pt, with T, s and the small-angle matrix
\* R made of the src-minus-dst differences of the seven parameters (arc
\* seconds to radians, ppm to a ratio); no other field of a datum counts.
C12_Helmert ==
  (pc = "done" /\ op = "dat2dat")
    => NearVector(ret, Helmert(ParameterDifference(args.src, args.dst), args.xyz))

\* a shift between datums that differ in every parameter, on ellipsoids and
\* prime meridians that differ too, has returned a moved point
C12_Witness ==
  /\ pc = "done" /\ op = "dat2dat"
  /\ args.src = TurnedDatum /\ args.dst = Osgb36Datum
  /\ args.src.ellipsoid # args.dst.ellipsoid /\ args.src.prime # args.dst.prime
  /\ \A k \in HelmertParameters : args.src[k] # args.dst[k]
  /\ ret # args.xyz

(***************************************************************************)
(* Projections.                                                            *)
(***************************************************************************)
ForwardDone == caller.fn = "roundtrip" /\ caller.pc # "start"

PlainOrigin(crs) ==
  /\ crs.lambda0 = Zero /\ crs.phi0 = Zero /\ crs.k0 = One
  /\ crs.x0 = Zero /\ crs.y0 = Zero

\* C13: tmerc_forward with lambda0 = 0, phi0 = 0, k0 = 1 and no false origin
\* maps the point of longitude 0, latitude 0 and altitude 0 to x = 0, y = 0,
\* exactly.
C13_OriginFixed ==
  (/\ ForwardDone
   /\ caller.proj = "tmerc"
   /\ PlainOrigin(caller.crs)
   /\ caller.lla = Geodesic(Zero, Zero, Zero))
    => caller.xya.x = Zero /\ caller.xya.y = Zero

\* tmerc_forward has returned for the origin
C13_Witness ==
  /\ caller.fn = "roundtrip" /\ caller.pc = "forward"
  /\ caller.proj = "tmerc"
  /\ PlainOrigin(caller.crs)
  /\ caller.lla = Geodesic(Zero, Zero, Zero)
  /\ caller.xya.x = Zero /\ caller.xya.y = Zero

\* k0 * nhu(phi0) * cot(phi0)
TangentRadius(crs) ==
  Mul(Mul(crs.k0, nhu(crs.datum.ellipsoid.a, crs.datum.ellipsoid.e, crs.phi0)),
      Div(Cos(crs.phi0), Sin(crs.phi0)))

CoefTol == R(0, 0, 100, 0, 0)

\* the outputs of coef that lcc_inverse holds, once it has called coef
CoefRead == caller.fn = "roundtrip" /\ caller.proj = "lcc" /\ caller.pc \in {"inverse", "done"}

\* C15 as stated: for every CRS with phi1 == phi2 the coefficients are those
\* of the tangent cone, n = sin(phi0), xs = x0, ys = y0 + k0 nhu(phi0) cot(phi0)
\* and c = k0 nhu(phi0) cot(phi0) exp(n isometric_latitude(phi0)).
C15_Original ==
  (CoefRead /\ caller.crs.phi1 = caller.crs.phi2)
    => /\ caller.result.n = Sin(caller.crs.phi0)
       /\ caller.result.xs = caller.crs.x0
       /\ Near(caller.result.ys, Add(caller.crs.y0, TangentRadius(caller.crs)), CoefTol)
       /\ Near(caller.result.c,
               Mul(TangentRadius(caller.crs),
                   Exp(Mul(caller.result.n,
                           isometric_latitude(caller.crs.datum.ellipsoid.e, caller.crs.phi0)))),
               CoefTol)

\* the explicit failure the inverse of an unimplemented projection would return
NotImplemented == [error |-> "not implemented"]

\* C14 as stated: a call of the Oblique Mercator inverse ends with the
\* distinct "not implemented" signal, never with a geodesic point.
C14_Original ==
  (RoundTripDone /\ caller.proj = "omerc") => caller.out = NotImplemented

\* C18: altitude passes through every projection unchanged: each of the six
\* forward functions returns the altitude of the geodesic point it was given,
\* and each of the five inverse functions returns the altitude of the planar
\* point it was given, whatever the CRS.
C18_AltitudePassThrough ==
  /\ (ForwardDone /\ caller.proj \in Projections \cup {"omerc"})
       => caller.xya.altitude = caller.lla.altitude
  /\ (RoundTripDone /\ caller.proj \in Projections)
       => caller.out.altitude = caller.xya.altitude

\* a round trip through the cone whose coefficients are unassigned has come
\* back with the altitude it started from
C18_Witness ==
  /\ RoundTripDone
  /\ caller.proj = "lcc" /\ caller.crs = LccEquator
  /\ caller.lla.altitude = I(120)
  /\ caller.xya.altitude = I(120)
  /\ caller.out.altitude = I(120)

(***************************************************************************)
(* The direct solver.                                                      *)
(***************************************************************************)
\* longitude in (-pi, pi] and latitude in [-pi/2, pi/2]
InRange(p) ==
  /\ Gt(p.longitude, Neg(M_PI)) /\ Le(p.longitude, M_PI)
  /\ Ge(p.latitude, Neg(HALF_PI)) /\ Le(p.latitude, HALF_PI)

\* C17 as stated: every point destination returns for a start point of
\* longitude in (-pi, pi] and latitude in [-pi/2, pi/2] has its longitude
\* and its latitude in these ranges.
C17_Original ==
  \A k \in 1..Len(log) :
    (log[k].op = "destination" /\ InRange(log[k].args.start)) => InRange(log[k].ret)

(***************************************************************************)
(* dms and dmm.                                                            *)
(***************************************************************************)
AngleDone == pc = "done" /\ op \in {"dms", "dmm"}

\* C19 as stated: the sign field of dms(v) and of dmm(v) is 1 for a positive
\* v and -1 for a negative v.
C19_Original ==
  AngleDone
    => /\ Gt(args.value, Zero) => ret.sign = 1
       /\ Lt(args.value, Zero) => ret.sign = -1

\* x is a whole number in lo..hi
WholeIn(x, lo, hi) == x = floor(x) /\ Ge(x, I(lo)) /\ Le(x, I(hi))

\* 0 <= x < 60
BelowSixty(x) == Ge(x, Zero) /\ Lt(x, I(60))

\* the value rounds up to 60
RoundsToSixty(x) == Ge(x, Sub(I(60), EPS))

\* the field went to 0 and the next higher field took the carry: it is one
\* more, or went to 0 in its turn
Carried(low, high, before) == low = Zero /\ high \in {Add(before, One), Zero}

\* C20: dms returns a whole minute in 0..59 and a second in [0, 60), dmm a
\* minute in [0, 60); seconds, or decimal minutes, that round up to 60 come
\* back as 0 with the carry in the next higher field.
C20_FieldsBelowSixty ==
  /\ (pc = "done" /\ op = "dms")
       => /\ WholeIn(ret.minute, 0, 59)
          /\ BelowSixty(ret.second)
          /\ RoundsToSixty(loc.seconds) => Carried(ret.second, ret.minute, loc.minutes)
          /\ (ret.minute = Zero /\ loc.minutes # Zero) => ret.degree = Add(loc.degrees, One)
  /\ (pc = "done" /\ op = "dmm")
       => /\ BelowSixty(ret.minute)
          /\ RoundsToSixty(loc.minutes) => Carried(ret.minute, ret.degree, loc.degrees)

\* dms has returned for a value whose seconds rounded up to 60 in the 59th
\* minute: both carries were made
C20_Witness ==
  /\ pc = "done" /\ op = "dms"
  /\ RoundsToSixty(loc.seconds) /\ loc.minutes = I(59)
  /\ ret.second = Zero /\ ret.minute = Zero /\ ret.degree = Add(loc.degrees, One)

(***************************************************************************)
(* Concurrent calls.                                                       *)
(***************************************************************************)
RECURSIVE RunLoop(_, _, _)
RECURSIVE RunDistance(_, _)
\* a call run from its loop test to its return, with no other call around
RunLoop(o, a, l) ==
  IF ~SolverCond(o, l) THEN SolverReturn(o, a, l)
  ELSE IF o = "distance" THEN RunDistance(a, distance_ssigma(a, l))
  ELSE RunLoop(o, a, SolverBody(o, a, l))

RunDistance(a, l) ==
  IF distance_degenerate(l) THEN distance_result_init
  ELSE RunLoop("distance", a, distance_update(a, l))

RunAlone(o, a) == RunLoop(o, a, SolverInit(o, a))

RECURSIVE NpointsFor(_)
NpointsForCall(c) ==
  NpointsFor(npoints_243(npoints_242(c,
    RunAlone("destination", [ellps |-> c.ellps, start |-> c.lla, dbb |-> c.dbb]))))

NpointsFor(c) == IF npoints_238(c) THEN NpointsForCall(npoints_239(c)) ELSE c.result

NpointsAlone(c) ==
  NpointsFor(npoints_237(npoints_236(npoints_232(npoints_230(c,
    RunAlone("distance", [ellps |-> c.ellps, start |-> c.lla0, stop |-> c.lla1]))))))

\* what each program returns when it runs alone
AloneResults ==
  [k \in DOMAIN ThreadPrograms |->
     IF ThreadPrograms[k].caller.fn = "npoints" THEN NpointsAlone(ThreadPrograms[k].caller)
     ELSE RunAlone(ThreadPrograms[k].op, ThreadPrograms[k].args)]

ThreadDone(c) == IF c.caller.fn = "npoints" THEN c.caller.pc = "done" ELSE c.pc = "done"

ThreadResult(c) == IF c.caller.fn = "npoints" THEN c.caller.result ELSE c.ret

SameAsAlone(c) == ThreadDone(c) => ThreadResult(c) = AloneResults[c.caller.program]

ApplySign(sign, x) == IF sign = 1 THEN x ELSE IF sign = -1 THEN Neg(x) ELSE Zero

\* degree + minute/60 + second/3600, with the sign
DmsToDegrees(d) ==
  ApplySign(d.sign, Add(d.degree, Add(DivI(d.minute, 60), DivI(d.second, 3600))))

\* degree + minute/60, with the sign
DmmToDegrees(d) == ApplySign(d.sign, Add(d.degree, DivI(d.minute, 60)))

BackToDegrees(o, d) == IF o = "dms" THEN DmsToDegrees(d) ELSE DmmToDegrees(d)

\* the rounding of the divisions by 60 and 3600 and of the carries
SexagesimalTol == R(0, 0, 0, 1, 0)

\* C21 as stated: the structure returned by dms(v) or dmm(v), converted back
\* to decimal degrees with its sign applied, gives v again, for every v.
C21_Original == AngleDone => Near(BackToDegrees(op, ret), args.value, SexagesimalTol)

\* C28 as stated: the degree field of dms(v) and of dmm(v) is a whole number
\* in 0..359, also after the carries.
C28_Original == AngleDone => WholeIn(ret.degree, 0, 359)

(***************************************************************************)
(* The stop rule of the latitude solvers.                                  *)
(***************************************************************************)
\* the two latest estimates agree to EPS, or MAX_ITER passes were made
StopRule(l) == l.i = MAX_ITER \/ Near(l.phi_i, l.phi_ip1, EPS)

\* the latitude a latitude solver returned
ReturnedLatitude(o, r) == IF o = "geodesic" THEN r.latitude ELSE r

NNear(x, y, tol) == IF x = NaN \/ y = NaN THEN x = y ELSE Near(x, y, tol)

OmercTol == R(0, 0, 0, 1, 0)

\* line 51: t = tan(pi/4 - phi/2) / ((1 - e sin(phi)) / (1 + e sin(phi)))^(e/2)
omerc_forward_51(e, lla, l) ==
  Div(Tan(Sub(DivI(M_PI, 4), DivI(lla.latitude, 2))),
      Pow(Div(Sub(One, Mul(e, l.sphi)), Add(One, Mul(e, l.sphi))), DivI(e, 2)))

\* line 61: U = (- V cos(g0) + S sin(g0)) / T
omerc_forward_61(l) ==
  NDiv(NAdd(NMul(NNeg(l.V), NCos(l.coef.g0)), NMul(l.S, NSin(l.coef.g0))), l.T)

\* lines 69 and 71: E = v cos(gc) + u sin(gc) + FE with gc = 0
omerc_forward_69(crs, l) == NAdd(l.v, crs.x0)

\* lines 70 and 71: N = u cos(gc) - v sin(gc) + FN with gc = 0
omerc_forward_70(crs, l) == NAdd(l.u, crs.y0)

\* C23 as stated: omerc_forward computes t, U and the easting and northing
\* by the formulas of its comments: t divides by ((1 - e sin(phi)) /
\* (1 + e sin(phi)))^(e/2), U is (-V cos(g0) + S sin(g0)) / T, the easting is
\* v + x0 and the northing u + y0.
C23_Original ==
  /\ (op = "omerc_forward" /\ pc = "54")
       => Near(loc.t, omerc_forward_51(args.crs.datum.ellipsoid.e, args.lla, loc), OmercTol)
  /\ (op = "omerc_forward" /\ pc = "64")
       => NNear(loc.U, omerc_forward_61(loc), OmercTol)
  /\ (op = "omerc_forward" /\ pc = "done")
       => /\ NNear(ret.x, omerc_forward_69(args.crs, loc), OmercTol)
          /\ NNear(ret.y, omerc_forward_70(args.crs, loc), OmercTol)

\* the statements of line 37: A (lambda0 - l0) at a right angle, and
\* (A/B) atan2(sqrt(D^2 - 1), cos(azimut)) sign(phi0) at every other azimuth
omerc_uc_right(crs, c) == NMul(c.A, NSub(crs.lambda0, c.l0))

omerc_uc_oblique(crs, c) ==
  Mul(Mul(Div(c.A, c.B), Atan2(Sqrt(Sub(c.D2, One)), Cos(crs.azimut))), omerc_sign(crs.phi0))

\* C29 as stated: omerc_coef takes uc = A (lambda0 - l0) only when
\* |cos(azimut)| < 1e-10, and the atan2 formula for every other azimuth.
C29_Original ==
  (op = "omerc_forward" /\ pc \notin {"49", "done"})
    => IF Lt(Fabs(Cos(args.crs.azimut)), EPS)
       THEN NNear(loc.coef.uc, omerc_uc_right(args.crs, loc.coef), OmercTol)
       ELSE NNear(loc.coef.uc, omerc_uc_oblique(args.crs, loc.coef), OmercTol)

(***************************************************************************)
(* The Vincenty solvers.                                                   *)
(***************************************************************************)
VincentySolvers == {"distance", "destination"}

\* C24 as stated: in distance and in destination the first test of the while
\* condition succeeds for every input, so no call returns from behind the
\* loop without a pass of the body having assigned what is read there; in
\* particular destination's sigma_p = 2 pi is never within EPS of the first
\* sigma.
C24_Original ==
  /\ (op \in VincentySolvers /\ pc = "loop" /\ loc.i = 0) => SolverCond(op, loc)
  /\ (op = "destination" /\ pc = "loop" /\ loc.i = 0)
       => ~Near(loc.sigma, loc.sigma_p, EPS)
  /\ (op = "destination" /\ pc = "done") => loc.i >= 1

\* C25 as stated: coef assigns lambda0, n, c, xs and ys for every CRS, so the
\* five values lcc_inverse reads are the one result the CRS determines; none
\* is left to what the stack held, also for phi1 == phi2 with phi0 == 0.
C25_Original == CoefRead => coef(caller.crs) = {caller.result}

(***************************************************************************)
(* The buffer of npoints.                                                  *)
(***************************************************************************)
\* C26 as stated: for every n, negative ones included, the pointer npoints
\* stores through is a successful allocation of n+2 elements, and every
\* element it stores, index 0 and then 1..n+1, lies inside that block.
C26_Original ==
  (caller.fn = "npoints" /\ caller.pc # "start")
    => /\ caller.buffer = Block(caller.n + 2)
       /\ caller.pc # "fault"
       /\ \A k \in DOMAIN caller.writes : InBuffer(caller.buffer, k)

\* csigma - 2*sU1*sU2/calpha2, the quotient of line 143
distance_143(l) == Sub(l.csigma, Div(Mul(MulI(l.sU1, 2), l.sU2), l.calpha2))

\* C27: distance divides by sin(sigma) and by cos^2(alpha) only when the
\* divisor is at least EPS: a pass whose ssigma is below EPS returns the
\* zero result before line 139 divides, so after every completed pass ssigma
\* is at least EPS; and c2sigma_m is 0 where calpha2 is below EPS, the
\* quotient of line 143 only where calpha2 is at least EPS.
C27_DivisorsGuarded ==
  /\ (op = "distance" /\ pc = "loop" /\ loc.i >= 1)
       => /\ Ge(loc.ssigma, EPS)
          /\ loc.c2sigma_m = IF Lt(loc.calpha2, EPS) THEN Zero ELSE distance_143(loc)
  /\ (op = "distance" /\ pc = "done" /\ Lt(loc.ssigma, EPS))
       => ret = Vincenty_dist(Zero, Zero, Zero)

\* a pass of distance has completed with calpha2 positive and below EPS: it
\* did not divide by it and set c2sigma_m to 0
C27_Witness ==
  /\ op = "distance" /\ pc = "loop" /\ loc.i >= 1
  /\ Gt(loc.calpha2, Zero) /\ Lt(loc.calpha2, EPS)
  /\ loc.c2sigma_m = Zero

(***************************************************************************)
(* Lagrange interpolation.                                                 *)
(***************************************************************************)
PairwiseDistinct(nx) == \A a, b \in DOMAIN nx : a # b => nx[a] # nx[b]

\* C30: for n >= 1 pairwise distinct abscissae nx[0..n-1], lagrange at
\* nx[k] returns ny[k], for every k in 0..n-1.
C30_ThroughPoints ==
  (op = "lagrange" /\ pc = "done" /\ args.n >= 1 /\ PairwiseDistinct(args.nx))
    => \A k \in 0..(args.n - 1) : args.x = args.nx[k] => ret = args.ny[k]

\* lagrange has returned the ordinate of the last of three distinct
\* calibration points, which is not 0, for its abscissa
C30_Witness ==
  /\ op = "lagrange" /\ pc = "done"
  /\ args.n = 3 /\ PairwiseDistinct(args.nx)
  /\ args.x = args.nx[2]
  /\ ret = args.ny[2] /\ ret # Zero
====
